---- MODULE Spec2Model ----
(***************************************************************************)
(* browser-ext: the development notifier of the webpack package (socket    *)
(* server, watch callback, coordinated shutdown), the client banner that   *)
(* is injected into the background script, and the timestamp-polling       *)
(* clients of the vite package.                                            *)
(*                                                                         *)
(* Time is discrete: one tick is 500 ms.  Node timers are kept as a list   *)
(* of countdowns; Tick is enabled only while no pending timer is due, so   *)
(* timers fire in deadline order.                                          *)
(***************************************************************************)
EXTENDS Integers, Sequences, FiniteSets, TLC

(* ------------------------------ bounds -------------------------------- *)

MaxClients == 1
MaxRebuilds == 2
MaxSignals == 2
MaxTimestamp == 3
MaxManifestChanges == 3
MaxPolls == 3
MaxRuns == 2
MaxClock == 4
MaxBuilds == 2
ReloadCounterSize == 8

(* ------------------------- program constants -------------------------- *)

\* setTimeout(..., 500) before reload-content, in ticks
ReloadContentDelay == 1
\* 1000 ms: the delay of the banner's reload after ws.onclose
BannerReloadDelay == 2
\* setTimeout(..., 3000) force exit, in ticks
ForceExitDelay == 6
\* setTimeout(..., 2000) watcher close timeout, in ticks
WatcherTimeoutDelay == 4
\* portNumbers(preferredPort + 1, preferredPort + 100)
PortSpan == 100
\* .option('-p, --port <number>', ..., '10000')
DefaultPort == 10000

Clients == 1..MaxClients

VARIABLES
  \* environment of the dev process
  project,              \* entry names of the extension project, per category
  options,              \* dev(options): [port, reload]
  busy,                 \* ports that are not available on this host
  \* module state of scripts/dev
  pc,                   \* "start" before dev() ran, "running" after
  wss,                  \* "null" | "listening" | "closing" | "closed"
  wssPort,              \* port the socket server listens on (0: none)
  webpackWatcher,       \* "null" | "watching" | "closing" | "closed"
  entries,              \* const entries = getEntries(), captured by dev()
  clients,              \* server-side sockets: "none" | "open" | "closing" | "closed"
  sent,                 \* per client, the messages client.send() put on the wire
  timers,               \* pending setTimeout callbacks: [kind, client, left]
  shutdownInProgress,
  forceExit,
  wssResolved,          \* first promise of Promise.all resolved
  watcherResolved,      \* second promise of Promise.all resolved
  exitCode,             \* "none" while the process runs, else "0" | "1"
  \* records of what happened, read by the properties only
  nBuilds,
  lastBuild,            \* the last watch callback: its outcome, the files
                        \* edited, the changedFiles it computed, and
                        \* whether the callback before it reported a failure
  nSignals,
  shutdownOps,          \* the calls the shutdown handler made, in order
  elapsed,              \* ticks since the shutdown handler first ran
  \* injected background client (banner), one per server-side socket
  handled,              \* number of messages whose onmessage has run
  clientReloads,        \* chrome.runtime.reload() calls made by onmessage
  \* timestamp-polling clients
  manifestTimestamp,    \* __dev_timestamp of the live manifest (0: absent)
  nManifestChanges,
  lastTimestamp,        \* per context: <<>> is null, <<v>> a recorded value
  observed,             \* per context: what this context instance has read
  nPolls,
  pollReloads,          \* per context: reload triggers issued
  \* the vite package: files of the project and the manifest plugin
  manifestJson,         \* manifest.json in the project root: [exists, json]
  packageJson,          \* package.json: [exists, name, version, description]
  isDevelopment,        \* config.mode === 'development'
  dateNow,              \* what Date.now() returns, in milliseconds
  processed,            \* the results of processManifest, in call order
  \* the vite package: one run of the bundler with the plugins
  root,                 \* process.cwd()
  nodeEnv,              \* process.env.NODE_ENV
  sourceFiles,          \* files that exist in the project (relative paths)
  htmlPages,            \* the html files of the project: [html, scripts]
  vitePc,               \* "idle" | "configured" | "started" | "written" |
                        \* "changed" | "failed"
  viteError,            \* message of the error that ended the run
  browserExtEntries,    \* entries plugin: << >> or <<EntriesResult>>
  manifestContent,      \* manifest plugin: << >> or <<processed manifest>>
  assets,               \* assets plugin: AssetsToCopy
  transformed,          \* per module id: "pending" or what transform appended
  emitted,              \* the manifests emitted, one per build
  outDir,               \* files in the output directory
  watchChanges,         \* the ids watchChange was called with, in order
  postcss,              \* the project's PostCSS setup: [config, throwsOn]
  warnings,             \* the assets Logger.warn reported as not found
  cssWritten,           \* per css file of the output directory, its content
  extConfig,            \* the BrowserExtConfig passed to defineConfig
  viteConfig,           \* what defineConfig returned; << >> before the call
  \* the background script that carries the banner, in the browser
  server,               \* the dev server: "up", "down" or "gone" for good
  banner,               \* [state, timers]: the socket and the pending timeouts
  sinceClose,           \* ticks since ws.onclose ran
  bannerReloads         \* chrome.runtime.reload() calls, counted modulo
                        \* ReloadCounterSize

devVars == <<pc, wss, wssPort, webpackWatcher, entries, clients, sent, timers,
             shutdownInProgress, forceExit, wssResolved, watcherResolved,
             exitCode, nBuilds, lastBuild, nSignals, shutdownOps, elapsed>>
envVars == <<project, options, busy>>
bannerVars == <<server, banner, sinceClose, bannerReloads>>
clientVars == <<handled, clientReloads, bannerVars>>
pollVars == <<manifestTimestamp, nManifestChanges, lastTimestamp, observed,
              nPolls, pollReloads>>
manifestVars == <<manifestJson, packageJson, isDevelopment, dateNow, processed>>
buildVars == <<root, nodeEnv, sourceFiles, htmlPages, vitePc, viteError,
               browserExtEntries, manifestContent, assets, transformed,
               emitted, outDir, watchChanges>>
assetVars == <<postcss, warnings, cssWritten>>
configVars == <<extConfig, viteConfig>>
viteVars == <<manifestVars, buildVars, assetVars, configVars>>
vars == <<envVars, devVars, clientVars, pollVars, viteVars>>

(* ------------------------------ strings ------------------------------- *)
\* A string is a sequence of one-character strings.

\* String.prototype.includes
Includes(file, entry) ==
  \E i \in 1..(Len(file) - Len(entry) + 1) :
    SubSeq(file, i, i + Len(entry) - 1) = entry

(* ------------------------------ projects ------------------------------ *)

NoEntries == [background |-> {}, contentScript |-> {}, extensionPage |-> {}]

\* Entry names the projects are drawn from.
BackgroundNames == { <<"b", "g">> }
ContentScriptNames == { <<"c", "s">> }
ExtensionPageNames == { <<"p", "g">> }

Projects ==
  { [background |-> b, contentScript |-> c, extensionPage |-> p] :
      b \in SUBSET BackgroundNames,
      c \in SUBSET ContentScriptNames,
      p \in SUBSET ExtensionPageNames }
  \ { NoEntries }

AllNames(ents) == ents.background \cup ents.contentScript \cup ents.extensionPage

\* The source file an entry name stands for: the project root, the path
\* relative to it, and the extension that was stripped from the name.
EntryFile(name) == <<"/">> \o name \o <<".", "t">>

FilesOf(names) == { EntryFile(n) : n \in names }

(* ------------------------- setupWebSocketServer ----------------------- *)

\* const ports = [preferredPort, ...portNumbers(preferredPort + 1, preferredPort + 100)]
PortList(preferredPort) == preferredPort..(preferredPort + PortSpan)

\* Ports the operating system may hand out when asked for "any free port".
AnyPorts(preferredPort) ==
  { preferredPort + PortSpan + 1, preferredPort + PortSpan + 2 } \ busy

\* await getPort({ port: ports }): the first port of the list that is
\* available; get-port tries port 0 (any free port) when none of them is.
GetPort(preferredPort) ==
  LET free == PortList(preferredPort) \ busy
  IN IF free # {}
       THEN { CHOOSE p \in free : \A q \in free : p <= q }
       ELSE AnyPorts(preferredPort)

(* ------------------------------ the build ----------------------------- *)

\* stats.toJson().chunks of a compilation with the given entries.  The stats
\* describe the whole compilation: one chunk per entry (splitChunks is off in
\* development), each with the entry's module and a runtime module that has
\* no nameForCondition, and one chunk that holds no javascript module.
StatsChunks(ents) ==
  { { [moduleType |-> "javascript/auto", nameForCondition |-> EntryFile(n)],
      [moduleType |-> "runtime", nameForCondition |-> <<>>] } :
      n \in AllNames(ents) }
  \cup { { [moduleType |-> "asset/resource", nameForCondition |-> <<"/", "i">>] } }

\* const changedFiles = info.chunks?.filter(...).flatMap(...).filter((name) => name)
ChangedFiles(chunks) ==
  LET js == { ch \in chunks : \E m \in ch : m.moduleType = "javascript/auto" }
      names == UNION { { m.nameForCondition : m \in ch } : ch \in js }
  IN { n \in names : n # <<>> }

(* ------------------------ notifyClientsToReload ----------------------- *)

\* Object.keys(entries.X).some((entry) => changedFiles.some((file) => file.includes(entry)))
SomeChanged(names, changedFiles) ==
  \E entry \in names : \E file \in changedFiles : Includes(file, entry)

backgroundChanged(changedFiles, ents) == SomeChanged(ents.background, changedFiles)
contentScriptChanged(changedFiles, ents) == SomeChanged(ents.contentScript, changedFiles)
extensionPageChanged(changedFiles, ents) == SomeChanged(ents.extensionPage, changedFiles)

\* Instruction with the page branch tested first.
Instruction_PageFirst(bg, cs, pg) ==
  IF pg THEN "reload-page"
  ELSE IF bg \/ cs THEN "reload-background"
  ELSE "nothing"

\* What one open client is sent at once: the if / else-if of the forEach body.
Instruction(bg, cs, pg) ==
  IF bg \/ cs THEN "reload-background"
  ELSE IF pg THEN "reload-page"
  ELSE "nothing"

\* SchedulesContent with the content-script flag left out of the condition.
SchedulesContent_BackgroundOnly(bg, cs, pg) == bg

\* Whether the reload-content timer is set for an open client.
SchedulesContent(bg, cs, pg) == bg \/ cs

\* Mutant: the message goes out whatever the socket's state.
Send_Unchecked(log, readyState, data) == Append(log, data)

\* client.send(data): ws drops a message sent on a socket that is not open.
Send(log, readyState, data) ==
  IF readyState = "open" THEN Append(log, data) ELSE log

OpenClients == SelectSeq([i \in 1..MaxClients |-> i], LAMBDA c : clients[c] = "open")

ContentTimers(cs) ==
  [i \in 1..Len(cs) |-> [kind |-> "content", client |-> cs[i], left |-> ReloadContentDelay]]

notifyClientsToReload(changedFiles, ents) ==
  IF wss = "null"
    THEN UNCHANGED <<sent, timers>>
    ELSE
      LET bg == backgroundChanged(changedFiles, ents)
          cs == contentScriptChanged(changedFiles, ents)
          pg == extensionPageChanged(changedFiles, ents)
          now == Instruction(bg, cs, pg)
      IN /\ sent' = [c \in Clients |->
                       IF clients[c] = "open" /\ now # "nothing"
                         THEN Send(sent[c], clients[c], now)
                         ELSE sent[c]]
         /\ timers' = IF SchedulesContent(bg, cs, pg)
                        THEN timers \o ContentTimers(OpenClients)
                        ELSE timers

(* -------------------------------- dev --------------------------------- *)

Running == pc = "running" /\ exitCode = "none"

\* dev(options) up to the registration of the signal handlers.
Dev ==
  /\ pc = "start"
  /\ IF options.reload
       THEN /\ wss' = "listening"
            /\ wssPort' \in GetPort(options.port)
       ELSE UNCHANGED <<wss, wssPort>>
  /\ entries' = project
  /\ webpackWatcher' = "watching"
  /\ pc' = "running"
  /\ UNCHANGED <<clients, sent, timers, shutdownInProgress, forceExit,
                 wssResolved, watcherResolved, exitCode, nBuilds, lastBuild,
                 nSignals, shutdownOps, elapsed>>
  /\ UNCHANGED <<viteVars, envVars, clientVars, pollVars>>

\* How a rebuild can end: a fatal error (err), no stats, stats with
\* compilation errors, or an error-free build.
Failures == { "err", "nostats", "errors" }
Outcomes == Failures \cup { "ok" }

\* Proceeds without the stats.hasErrors() return.
Proceeds_IgnoresErrors(outcome) == outcome \in { "ok", "errors" }

\* Whether the watch callback gets past its three early returns.
Proceeds(outcome) == outcome = "ok"

\* The callback handed to webpack(config).watch: a rebuild ended with
\* `outcome`, after the files `changed` were edited.
WatchCallback(outcome, changed) ==
  /\ Running
  /\ webpackWatcher = "watching"
  /\ nBuilds < MaxRebuilds
  /\ nBuilds' = nBuilds + 1
  /\ lastBuild' = [outcome |-> outcome, changed |-> changed,
                    changedFiles |-> IF Proceeds(outcome)
                                       THEN ChangedFiles(StatsChunks(entries))
                                       ELSE {},
                    afterFailure |-> lastBuild.outcome \in Failures]
  /\ IF Proceeds(outcome) /\ options.reload
       THEN notifyClientsToReload(ChangedFiles(StatsChunks(entries)), entries)
       ELSE UNCHANGED <<sent, timers>>
  /\ UNCHANGED <<pc, wss, wssPort, webpackWatcher, entries, clients,
                 shutdownInProgress, forceExit, wssResolved, watcherResolved,
                 exitCode, nSignals, shutdownOps, elapsed>>
  /\ UNCHANGED <<viteVars, envVars, clientVars, pollVars>>

Rebuild ==
  \E outcome \in Outcomes :
    \E changed \in SUBSET FilesOf(AllNames(entries)) :
      /\ (outcome = "ok") = (changed # {})
      /\ WatchCallback(outcome, changed)

\* manifest.json or an html file of the project is edited during the watch
\* session so that the project's entries are no longer those of dev start.
\* dev() does not read them again: `entries` and the bundler's config keep
\* the value of line 149.
EditProject ==
  /\ Running
  /\ webpackWatcher = "watching"
  /\ project = entries
  /\ \E edited \in Projects :
       /\ edited # project
       /\ project' = edited
  /\ UNCHANGED <<options, busy>>
  /\ UNCHANGED <<viteVars, devVars, clientVars, pollVars>>

(* ------------------------------ clients ------------------------------- *)

\* wss.on('connection'): a browser-side client completes its handshake.
ClientConnect(c) ==
  /\ Running
  /\ wss = "listening"
  /\ clients[c] = "none"
  /\ clients' = [clients EXCEPT ![c] = "open"]
  /\ UNCHANGED <<pc, wss, wssPort, webpackWatcher, entries, sent, timers,
                 shutdownInProgress, forceExit, wssResolved, watcherResolved,
                 exitCode, nBuilds, lastBuild, nSignals, shutdownOps, elapsed>>
  /\ UNCHANGED <<viteVars, envVars, clientVars, pollVars>>

\* The connection of a client ends: the browser side closed it, or it
\* answered the close frame the server sent.
ClientGone(c) ==
  /\ Running
  /\ clients[c] \in { "open", "closing" }
  /\ clients' = [clients EXCEPT ![c] = "closed"]
  /\ UNCHANGED <<pc, wss, wssPort, webpackWatcher, entries, sent, timers,
                 shutdownInProgress, forceExit, wssResolved, watcherResolved,
                 exitCode, nBuilds, lastBuild, nSignals, shutdownOps, elapsed>>
  /\ UNCHANGED <<viteVars, envVars, clientVars, pollVars>>

\* What the banner's ws.onmessage does with event.data: TRUE when it calls
\* chrome.runtime.reload().
OnMessageReloads(data) == data = "reload"

\* ws.onmessage of the injected background client, for the next message.
ClientOnMessage(c) ==
  /\ handled[c] < Len(sent[c])
  /\ handled' = [handled EXCEPT ![c] = @ + 1]
  /\ clientReloads' =
       [clientReloads EXCEPT ![c] =
          IF OnMessageReloads(sent[c][handled[c] + 1]) THEN @ + 1 ELSE @]
  /\ UNCHANGED bannerVars
  /\ UNCHANGED <<viteVars, envVars, devVars, pollVars>>

(* ------------------- the banner's reconnect behaviour ----------------- *)
\* The background script with the banner, seen from the browser: it runs
\* when the extension is loaded, and chrome.runtime.reload() loads the
\* extension again, which discards the script's socket and timers.

\* Mutant: onclose logs and sets no timer.
OnCloseTimers_None(pending) == pending

\* ws.onclose: setTimeout(() => chrome.runtime.reload(), 1000)
OnCloseTimers(pending) == Append(pending, BannerReloadDelay)

\* The extension is loaded: the banner runs, new WebSocket(...).
BannerLoad ==
  /\ banner.state = "loading"
  /\ banner' = [banner EXCEPT !.state = "connecting"]
  /\ UNCHANGED <<server, sinceClose, bannerReloads, handled, clientReloads>>
  /\ UNCHANGED <<viteVars, envVars, devVars, pollVars>>

\* The dev server accepted the connection.
BannerOpen ==
  /\ banner.state = "connecting"
  /\ server = "up"
  /\ banner' = [banner EXCEPT !.state = "open"]
  /\ UNCHANGED <<server, sinceClose, bannerReloads, handled, clientReloads>>
  /\ UNCHANGED <<viteVars, envVars, devVars, pollVars>>

\* ws.onclose: the connection attempt failed, or the open connection ended
\* (the server closed it or stopped, or the connection was lost).
BannerOnClose ==
  /\ \/ banner.state = "connecting" /\ server # "up"
     \/ banner.state = "open"
  /\ banner' = [state |-> "closed", timers |-> OnCloseTimers(banner.timers)]
  /\ sinceClose' = 0
  /\ UNCHANGED <<server, bannerReloads, handled, clientReloads>>
  /\ UNCHANGED <<viteVars, envVars, devVars, pollVars>>

\* 500 ms pass in the browser; a timeout that is due runs first.
BannerTick ==
  /\ banner.timers # << >>
  /\ \A i \in 1..Len(banner.timers) : banner.timers[i] > 0
  /\ banner' = [banner EXCEPT
                  !.timers = [i \in 1..Len(banner.timers) |-> banner.timers[i] - 1]]
  /\ sinceClose' = sinceClose + 1
  /\ UNCHANGED <<server, bannerReloads, handled, clientReloads>>
  /\ UNCHANGED <<viteVars, envVars, devVars, pollVars>>

\* The timeout of onclose runs: chrome.runtime.reload().
BannerReload ==
  /\ \E i \in 1..Len(banner.timers) : banner.timers[i] = 0
  /\ banner' = [state |-> "loading", timers |-> << >>]
  /\ bannerReloads' = (bannerReloads + 1) % ReloadCounterSize
  /\ UNCHANGED <<server, sinceClose, handled, clientReloads>>
  /\ UNCHANGED <<viteVars, envVars, devVars, pollVars>>

\* The developer stops the dev server, for a while or for good.
ServerStop ==
  /\ server = "up"
  /\ server' \in { "down", "gone" }
  /\ UNCHANGED <<banner, sinceClose, bannerReloads, handled, clientReloads>>
  /\ UNCHANGED <<viteVars, envVars, devVars, pollVars>>

\* The developer starts the dev server again.
ServerStart ==
  /\ server = "down"
  /\ server' = "up"
  /\ UNCHANGED <<banner, sinceClose, bannerReloads, handled, clientReloads>>
  /\ UNCHANGED <<viteVars, envVars, devVars, pollVars>>

InitBannerIdle ==
  /\ server = "up"
  /\ banner = [state |-> "loading", timers |-> << >>]
  /\ sinceClose = 0
  /\ bannerReloads = 0

(* ------------------------------- timers ------------------------------- *)

RemoveKind(tms, kind) == SelectSeq(tms, LAMBDA t : t.kind # kind)

RemoveAt(tms, i) == SubSeq(tms, 1, i - 1) \o SubSeq(tms, i + 1, Len(tms))

HasTimer(kind) == \E i \in 1..Len(timers) : timers[i].kind = kind

\* The timer at index i is due, and no timer of its kind set before it is
\* still pending.
Due(i) ==
  /\ i \in 1..Len(timers)
  /\ timers[i].left = 0
  /\ \A j \in 1..(i - 1) : timers[j].kind # timers[i].kind

\* 500 ms pass; no pending timer is overdue.
Tick ==
  /\ Running
  /\ timers # <<>>
  /\ \A i \in 1..Len(timers) : timers[i].left > 0
  /\ timers' = [i \in 1..Len(timers) |-> [timers[i] EXCEPT !.left = @ - 1]]
  /\ UNCHANGED <<pc, wss, wssPort, webpackWatcher, entries, clients, sent,
                 shutdownInProgress, forceExit, wssResolved, watcherResolved,
                 exitCode, nBuilds, lastBuild, nSignals, shutdownOps>>
  /\ elapsed' = IF shutdownInProgress THEN elapsed + 1 ELSE elapsed
  /\ UNCHANGED <<viteVars, envVars, clientVars, pollVars>>

\* setTimeout(() => { client.send('reload-content') }, 500)
ReloadContentTimeout(i) ==
  /\ Running
  /\ Due(i)
  /\ timers[i].kind = "content"
  /\ LET c == timers[i].client
     IN sent' = [sent EXCEPT ![c] = Send(@, clients[c], "reload-content")]
  /\ timers' = RemoveAt(timers, i)
  /\ UNCHANGED <<pc, wss, wssPort, webpackWatcher, entries, clients,
                 shutdownInProgress, forceExit, wssResolved, watcherResolved,
                 exitCode, nBuilds, lastBuild, nSignals, shutdownOps, elapsed>>
  /\ UNCHANGED <<viteVars, envVars, clientVars, pollVars>>

(* ------------------------------ shutdown ------------------------------ *)

\* The exit code of Promise.all([...]).then(...) once both promises resolved.
CleanExitCode == "0"

\* Settle that exits as soon as either promise resolved.
Settle_Race(r1, r2, tms) ==
  IF r1 \/ r2
    THEN /\ timers' = RemoveKind(tms, "forceExit")
         /\ exitCode' = CleanExitCode
    ELSE /\ timers' = tms
         /\ exitCode' = exitCode

\* Promise.all([...]).then: with both promises resolved, the force-exit timer
\* is cleared and the process exits.
Settle(r1, r2, tms) ==
  IF r1 /\ r2
    THEN /\ timers' = RemoveKind(tms, "forceExit")
         /\ exitCode' = CleanExitCode
    ELSE /\ timers' = tms
         /\ exitCode' = exitCode

\* The calls of the two promise executors, in the order they are made.
ShutdownCalls(hasWss, hasWatcher) ==
  (IF hasWss THEN << "clients.close", "wss.close" >> ELSE << >>)
  \o (IF hasWatcher THEN << "watcher.close" >> ELSE << >>)

\* ShutdownTimers without the force-exit timer.
ShutdownTimers_NoForceExit(hasWatcher) ==
  IF hasWatcher
    THEN << [kind |-> "watcher", client |-> 0, left |-> WatcherTimeoutDelay] >>
    ELSE << >>

\* The timers a first signal sets.
ShutdownTimers(hasWatcher) ==
  << [kind |-> "forceExit", client |-> 0, left |-> ForceExitDelay] >>
  \o (IF hasWatcher
        THEN << [kind |-> "watcher", client |-> 0, left |-> WatcherTimeoutDelay] >>
        ELSE << >>)

\* const shutdown = () => {...}, registered for SIGINT and SIGTERM.
Shutdown ==
  /\ Running
  /\ nSignals < MaxSignals
  /\ nSignals' = nSignals + 1
  /\ IF shutdownInProgress
       THEN UNCHANGED <<wss, webpackWatcher, clients, timers,
                        shutdownInProgress, forceExit, wssResolved,
                        watcherResolved, exitCode, shutdownOps>>
       ELSE IF forceExit
         THEN /\ exitCode' = "1"
              /\ UNCHANGED <<wss, webpackWatcher, clients, timers,
                             shutdownInProgress, forceExit, wssResolved,
                             watcherResolved, shutdownOps>>
         ELSE /\ shutdownInProgress' = TRUE
              /\ forceExit' = TRUE
              /\ clients' = IF wss # "null"
                              THEN [c \in Clients |->
                                      IF clients[c] = "open" THEN "closing"
                                      ELSE clients[c]]
                              ELSE clients
              /\ wss' = IF wss # "null" THEN "closing" ELSE wss
              /\ wssResolved' = (wss = "null")
              /\ webpackWatcher' = IF webpackWatcher # "null" THEN "closing"
                                   ELSE webpackWatcher
              /\ watcherResolved' = (webpackWatcher = "null")
              /\ shutdownOps' = ShutdownCalls(wss # "null", webpackWatcher # "null")
              /\ Settle(wss = "null", webpackWatcher = "null",
                        timers \o ShutdownTimers(webpackWatcher # "null"))
  /\ UNCHANGED <<pc, wssPort, entries, sent, nBuilds, lastBuild, elapsed>>
  /\ UNCHANGED <<viteVars, envVars, clientVars, pollVars>>

\* wss.close(() => { resolve() }): the server reports closed once it accepts
\* no connection and every connection has ended.
WssClosed ==
  /\ Running
  /\ wss = "closing"
  /\ \A c \in Clients : clients[c] \in { "none", "closed" }
  /\ wss' = "closed"
  /\ wssResolved' = TRUE
  /\ Settle(TRUE, watcherResolved, timers)
  /\ UNCHANGED <<pc, wssPort, webpackWatcher, entries, clients, sent,
                 shutdownInProgress, forceExit, watcherResolved, nBuilds,
                 lastBuild, nSignals, shutdownOps, elapsed>>
  /\ UNCHANGED <<viteVars, envVars, clientVars, pollVars>>

\* webpackWatcher.close((err) => { clearTimeout(watcherTimeout); resolve() })
WatcherClosed ==
  /\ Running
  /\ webpackWatcher = "closing"
  /\ webpackWatcher' = "closed"
  /\ watcherResolved' = TRUE
  /\ Settle(wssResolved, TRUE, RemoveKind(timers, "watcher"))
  /\ UNCHANGED <<pc, wss, wssPort, entries, clients, sent, shutdownInProgress,
                 forceExit, wssResolved, nBuilds, lastBuild, nSignals,
                 shutdownOps, elapsed>>
  /\ UNCHANGED <<viteVars, envVars, clientVars, pollVars>>

\* watcherTimeout: setTimeout(() => { resolve() }, 2000)
WatcherTimeout(i) ==
  /\ Running
  /\ Due(i)
  /\ timers[i].kind = "watcher"
  /\ watcherResolved' = TRUE
  /\ Settle(wssResolved, TRUE, RemoveAt(timers, i))
  /\ UNCHANGED <<pc, wss, wssPort, webpackWatcher, entries, clients, sent,
                 shutdownInProgress, forceExit, wssResolved, nBuilds,
                 lastBuild, nSignals, shutdownOps, elapsed>>
  /\ UNCHANGED <<viteVars, envVars, clientVars, pollVars>>

\* forceExitTimeout: setTimeout(() => { process.exit(1) }, 3000)
ForceExitTimeout(i) ==
  /\ Running
  /\ Due(i)
  /\ timers[i].kind = "forceExit"
  /\ exitCode' = "1"
  /\ timers' = RemoveAt(timers, i)
  /\ UNCHANGED <<pc, wss, wssPort, webpackWatcher, entries, clients, sent,
                 shutdownInProgress, forceExit, wssResolved, watcherResolved,
                 nBuilds, lastBuild, nSignals, shutdownOps, elapsed>>
  /\ UNCHANGED <<viteVars, envVars, clientVars, pollVars>>

(* ======================= the vite package ============================= *)
(* ------------------------- manifest processing ------------------------ *)

\* String.prototype.endsWith
EndsWith(str, suffix) ==
  /\ Len(suffix) <= Len(str)
  /\ SubSeq(str, Len(str) - Len(suffix) + 1, Len(str)) = suffix

\* The strings /\.(jsx?|tsx?)$/ matches at the end of a path.
SourceScriptSuffixes ==
  { <<".", "j", "s">>, <<".", "j", "s", "x">>,
    <<".", "t", "s">>, <<".", "t", "s", "x">> }

\* /\.(jsx?|tsx?)$/.test(path)
IsSourceScript(path) == \E s \in SourceScriptSuffixes : EndsWith(path, s)

\* Mutant: the replacement is appended to the match instead of taking its
\* place.
ReplaceSuffix_Append(path, replacement) ==
  IF IsSourceScript(path) THEN path \o replacement ELSE path

\* path.replace(/\.(jsx?|tsx?)$/, replacement)
ReplaceSuffix(path, replacement) ==
  IF IsSourceScript(path)
    THEN LET s == CHOOSE x \in SourceScriptSuffixes : EndsWith(path, x)
         IN  SubSeq(path, 1, Len(path) - Len(s)) \o replacement
    ELSE path

JsSuffix == <<".", "j", "s">>
HtmlSuffix == <<".", "h", "t", "m", "l">>

\* Mutant: only the TypeScript extensions are rewritten.
replaceFileExtension_TsOnly(filePath) ==
  IF EndsWith(filePath, <<".", "t", "s">>) \/ EndsWith(filePath, <<".", "t", "s", "x">>)
    THEN ReplaceSuffix(filePath, JsSuffix)
    ELSE filePath

replaceFileExtension(filePath) == ReplaceSuffix(filePath, JsSuffix)

\* A property that is not set reads as undefined; an absent path or list is
\* the empty sequence.
undefined == "undefined"

\* !value, for a string-valued property
Falsy(value) == value \in { undefined, "" }

\* packageJson = {} unless package.json exists
ReadPackageJson(file) ==
  IF file.exists
    THEN [name |-> file.name, version |-> file.version,
          description |-> file.description]
    ELSE [name |-> undefined, version |-> undefined, description |-> undefined]

\* Mutant: the package value wins whenever there is one.
Default_PackageFirst(own, fromPackage) ==
  IF ~Falsy(fromPackage) THEN fromPackage ELSE own

\* if (!manifest.x && packageJson.x) manifest.x = packageJson.x
Default(own, fromPackage) ==
  IF Falsy(own) /\ ~Falsy(fromPackage) THEN fromPackage ELSE own

\* One block of content_scripts: js and css both go through
\* replaceFileExtension.
ProcessContentScript(contentScript) ==
  [js |-> [i \in 1..Len(contentScript.js) |->
             replaceFileExtension(contentScript.js[i])],
   css |-> [i \in 1..Len(contentScript.css) |->
              replaceFileExtension(contentScript.css[i])]]

\* One element of web_accessible_resources: a string has no .resources and
\* is returned as it is; the paths of an object's resources are rewritten
\* when they match the pattern.
ProcessResource(resource) ==
  IF resource.shape = "object"
    THEN [resource EXCEPT !.resources =
            [i \in 1..Len(@) |-> IF IsSourceScript(@[i])
                                   THEN replaceFileExtension(@[i]) ELSE @[i]]]
    ELSE resource

\* Mutant: the popup path gets the script extension.
ProcessAction_Js(action) ==
  [action EXCEPT !.default_popup = ReplaceSuffix(@, JsSuffix)]

\* manifest[key].default_popup.replace(/\.(jsx?|tsx?)$/, '.html')
ProcessAction(action) ==
  [action EXCEPT !.default_popup = ReplaceSuffix(@, HtmlSuffix)]

\* Mutant: the timestamp is set in every mode.
Stamp_Always(timestamp, isDev, now) == now

\* if (isDevelopment) manifest.__dev_timestamp = Date.now()
Stamp(timestamp, isDev, now) == IF isDev THEN now ELSE timestamp

processManifest(rawManifest, isDev, packageFile, now) ==
  LET pkg == ReadPackageJson(packageFile)
  IN  [ name |-> Default(rawManifest.name, pkg.name),
        version |-> Default(rawManifest.version, pkg.version),
        description |-> Default(rawManifest.description, pkg.description),
        background |->
          [service_worker |->
             replaceFileExtension(rawManifest.background.service_worker)],
        content_scripts |->
          [i \in 1..Len(rawManifest.content_scripts) |->
             ProcessContentScript(rawManifest.content_scripts[i])],
        web_accessible_resources |->
          [i \in 1..Len(rawManifest.web_accessible_resources) |->
             ProcessResource(rawManifest.web_accessible_resources[i])],
        action |-> ProcessAction(rawManifest.action),
        browser_action |-> ProcessAction(rawManifest.browser_action),
        page_action |-> ProcessAction(rawManifest.page_action),
        icons |-> rawManifest.icons,
        dev_timestamp |-> Stamp(rawManifest.dev_timestamp, isDev, now) ]

(* ---------------------- inputs of manifest processing ----------------- *)

TsSuffix == <<".", "t", "s">>
TsxSuffix == <<".", "t", "s", "x">>
JsxSuffix == <<".", "j", "s", "x">>

\* File names that end in a source-script extension.
SourceScriptPaths ==
  { <<"a">> \o TsSuffix, <<"a">> \o TsxSuffix, <<"a">> \o JsxSuffix,
    <<"a">> \o JsSuffix, <<"a">> \o TsSuffix \o TsSuffix,
    <<"s", "r", "c", "/", "a">> \o TsxSuffix }

\* File names that do not: other extensions, and names that only look alike.
OtherPaths ==
  { <<"a", ".", "c", "s", "s">>, <<"a", ".", "p", "n", "g">>,
    <<"a">> \o HtmlSuffix, <<"a", ".", "j", "s", "o", "n">>,
    <<"a", ".", "m", "j", "s">>, <<"a", "t", "s">> }

TestPaths == SourceScriptPaths \cup OtherPaths

NoAction == [default_popup |-> << >>, default_icon |-> << >>]

\* A manifest.json with no property set.
EmptyManifest ==
  [ name |-> undefined, version |-> undefined, description |-> undefined,
    background |-> [service_worker |-> << >>],
    content_scripts |-> << >>,
    web_accessible_resources |-> << >>,
    action |-> NoAction, browser_action |-> NoAction, page_action |-> NoAction,
    icons |-> << >>,
    dev_timestamp |-> 0 ]

ManifestValues == { undefined, "", "m" }
PackageValues == { undefined, "", "p" }

\* package.json: missing, or with any combination of the three properties.
PackageFiles ==
  { [exists |-> FALSE, name |-> undefined, version |-> undefined,
     description |-> undefined] }
  \cup [exists : { TRUE }, name : PackageValues, version : PackageValues,
        description : PackageValues]

FullPackage ==
  [exists |-> TRUE, name |-> "p", version |-> "p", description |-> "p"]

StringResource(p) == [shape |-> "string", path |-> p, resources |-> << >>]
ObjectResource(ps) == [shape |-> "object", path |-> << >>, resources |-> ps]

ActionKeys == { "action", "browser_action", "page_action" }

WithPopup(key, p) ==
  [EmptyManifest EXCEPT ![key] = [default_popup |-> p, default_icon |-> << >>]]

\* Manifests that differ in name, version and description.
MetadataManifests ==
  { [EmptyManifest EXCEPT !.name = n, !.version = v, !.description = d] :
      n \in ManifestValues, v \in ManifestValues, d \in ManifestValues }

\* Manifests that differ in the paths they declare, in each of the places
\* processManifest looks at, and in a timestamp left in the raw file.
PathManifests ==
  { [EmptyManifest EXCEPT !.background.service_worker = p] : p \in TestPaths }
  \cup { [EmptyManifest EXCEPT !.content_scripts =
            << [js |-> <<p, q>>, css |-> << <<"a", ".", "c", "s", "s">> >>] >>] :
         p \in TestPaths, q \in SourceScriptPaths }
  \cup { [EmptyManifest EXCEPT !.web_accessible_resources =
            << StringResource(p), ObjectResource(<<q, p>>) >>] :
         p \in TestPaths, q \in TestPaths }
  \cup { WithPopup(key, p) : key \in ActionKeys, p \in TestPaths }
  \cup { [EmptyManifest EXCEPT !.dev_timestamp = t,
                               !.background.service_worker = p] :
         t \in { 1 }, p \in SourceScriptPaths }

ManifestInputs ==
  (MetadataManifests \X PackageFiles) \cup (PathManifests \X { FullPackage })

NoManifestFile == [exists |-> FALSE, json |-> EmptyManifest]

(* ------------------------- processing, repeated ----------------------- *)

\* Date.now() is read for the call; the next call reads a later value.
ProcessManifest ==
  /\ manifestJson.exists
  /\ Len(processed) < MaxRuns
  /\ dateNow < MaxClock
  /\ LET input == IF processed = << >> THEN manifestJson.json
                                       ELSE processed[Len(processed)]
     IN  processed' =
           Append(processed,
                  processManifest(input, isDevelopment, packageJson, dateNow))
  /\ \E later \in (dateNow + 1)..MaxClock : dateNow' = later
  /\ UNCHANGED <<manifestJson, packageJson, isDevelopment>>
  /\ UNCHANGED <<buildVars, assetVars, configVars, envVars, devVars, clientVars, pollVars>>

(* --------------------------- entry discovery -------------------------- *)

\* Positions of a character in a string; 0 stands for "not found".
LastIndexOf(str, ch) ==
  IF \E i \in 1..Len(str) : str[i] = ch
    THEN CHOOSE i \in 1..Len(str) :
           /\ str[i] = ch
           /\ \A j \in (i + 1)..Len(str) : str[j] # ch
    ELSE 0

\* path.parse(p).ext: from the last dot of the base name, unless that dot
\* is the base name's first character.
ParsedExt(p) ==
  LET dot == LastIndexOf(p, ".")
      slash == LastIndexOf(p, "/")
  IN  IF dot > slash + 1 THEN SubSeq(p, dot, Len(p)) ELSE << >>

\* str.replace(sub, ''): the first occurrence of sub is removed.
RemoveFirst(str, sub) ==
  LET At(i) == i + Len(sub) - 1 <= Len(str) /\ SubSeq(str, i, i + Len(sub) - 1) = sub
  IN  IF sub # << >> /\ \E i \in 1..Len(str) : At(i)
        THEN LET i == CHOOSE k \in 1..Len(str) :
                        At(k) /\ \A j \in 1..(k - 1) : ~At(j)
             IN  SubSeq(str, 1, i - 1) \o SubSeq(str, i + Len(sub), Len(str))
        ELSE str

StartsWith(str, prefix) ==
  Len(prefix) <= Len(str) /\ SubSeq(str, 1, Len(prefix)) = prefix

\* paths.relative: path.relative(process.cwd(), filePath); a relative
\* filePath is resolved against process.cwd() first.
Relative(cwd, filePath) ==
  IF StartsWith(filePath, cwd \o <<"/">>)
    THEN SubSeq(filePath, Len(cwd) + 2, Len(filePath))
    ELSE filePath

\* path.join(paths.root, file)
Join(dir, file) == dir \o <<"/">> \o file

\* str.replace(/\\/g, '/')
NormalizeSeparators(str) ==
  [i \in 1..Len(str) |-> IF str[i] = "\\" THEN "/" ELSE str[i]]

getEntry(cwd, entryPath) ==
  LET relativePath == Relative(cwd, entryPath)
      name == RemoveFirst(relativePath, ParsedExt(relativePath))
  IN  [name |-> NormalizeSeparators(name),
       path |-> <<".", "/">> \o NormalizeSeparators(relativePath)]

\* An EntryMap is a function from entry names to entry paths.
EmptyEntryMap == [n \in {} |-> << >>]

\* Mutant: a name that is already in the map keeps its first path.
PutEntry_KeepFirst(map, entry) ==
  [n \in DOMAIN map \cup { entry.name } |->
     IF n \in DOMAIN map THEN map[n] ELSE entry.path]

\* entries[entry.name] = entry.path
PutEntry(map, entry) ==
  [n \in DOMAIN map \cup { entry.name } |->
     IF n = entry.name THEN entry.path ELSE map[n]]

RECURSIVE PutEntries(_, _, _)
\* forEach over a list of files, in order
PutEntries(map, cwd, files) ==
  IF files = << >>
    THEN map
    ELSE PutEntries(PutEntry(map, getEntry(cwd, Head(files))), cwd, Tail(files))

RECURSIVE Flatten(_)
Flatten(seqs) == IF seqs = << >> THEN << >> ELSE Head(seqs) \o Flatten(Tail(seqs))

getBackgroundEntries(cwd, manifest) ==
  IF manifest.background.service_worker # << >>
    THEN PutEntries(EmptyEntryMap, cwd, << manifest.background.service_worker >>)
    ELSE EmptyEntryMap

getContentScriptEntries(cwd, manifest) ==
  PutEntries(EmptyEntryMap, cwd,
             Flatten([i \in 1..Len(manifest.content_scripts) |->
                        manifest.content_scripts[i].js]))

\* The script sources of the html files that become entries, in document
\* order: if (src && !src.startsWith('http'))
PageScripts(htmlFiles) ==
  SelectSeq(Flatten([i \in 1..Len(htmlFiles) |-> htmlFiles[i].scripts]),
            LAMBDA src : src # << >> /\ ~StartsWith(src, <<"h", "t", "t", "p">>))

\* Every html file of the project with the script sources it names; the
\* html files of the model lie in the project root.
getExtensionPageEntries(cwd, htmlFiles) ==
  PutEntries(EmptyEntryMap, cwd,
             LET srcs == PageScripts(htmlFiles)
             IN  [i \in 1..Len(srcs) |-> Join(cwd, srcs[i])])

ConfigurationError == "No manifest.json found in project root"

NoEntriesResult ==
  [background |-> EmptyEntryMap, contentScript |-> EmptyEntryMap,
   extensionPage |-> EmptyEntryMap]

\* Mutant: a missing manifest gives an empty result instead of an error.
discoverEntries_Lenient(cwd, manifestFile, htmlFiles) ==
  [error |-> "",
   result |-> IF manifestFile.exists
                THEN [background |-> getBackgroundEntries(cwd, manifestFile.json),
                      contentScript |-> getContentScriptEntries(cwd, manifestFile.json),
                      extensionPage |-> getExtensionPageEntries(cwd, htmlFiles)]
                ELSE NoEntriesResult]

\* The error thrown, if any, and the EntriesResult returned otherwise.
discoverEntries(cwd, manifestFile, htmlFiles) ==
  IF ~manifestFile.exists
    THEN [error |-> ConfigurationError, result |-> NoEntriesResult]
    ELSE [error |-> "",
          result |->
            [background |-> getBackgroundEntries(cwd, manifestFile.json),
             contentScript |-> getContentScriptEntries(cwd, manifestFile.json),
             extensionPage |-> getExtensionPageEntries(cwd, htmlFiles)]]

(* ------------------------ hot-reload transform ------------------------ *)

\* for (const [name, path] of Object.entries(map)) if (normalizedId.endsWith(path))
MatchesEntry(id, map) == \E n \in DOMAIN map : EndsWith(id, map[n])

\* What transform appends to the module's code; "null" when it returns null.
transform(id, ents, env) ==
  IF env # "development" THEN "null"
  ELSE IF MatchesEntry(id, ents.background) THEN "injectBackgroundReload"
  ELSE IF MatchesEntry(id, ents.contentScript) THEN "injectContentReload"
  ELSE IF MatchesEntry(id, ents.extensionPage) THEN "injectExtensionPageReload"
  ELSE "null"

(* ------------------------------ assets -------------------------------- *)

NonEmpty(paths) == SelectSeq(paths, LAMBDA p : p # << >>)

discoverCssFiles(manifest) ==
  Flatten([i \in 1..Len(manifest.content_scripts) |->
             manifest.content_scripts[i].css])

discoverIconFiles(manifest) ==
  manifest.icons
  \o NonEmpty(<< manifest.action.default_icon,
                 manifest.browser_action.default_icon,
                 manifest.page_action.default_icon >>)

discoverHtmlFiles(pages) == [i \in 1..Len(pages) |-> pages[i].html]

discoverWebAccessibleResources(manifest) ==
  Flatten([i \in 1..Len(manifest.web_accessible_resources) |->
             LET resource == manifest.web_accessible_resources[i]
             IN  IF resource.shape = "string" THEN << resource.path >>
                                              ELSE resource.resources])

NoAssets == [css |-> << >>, icons |-> << >>, html |-> << >>,
             webAccessibleResources |-> << >>]

DiscoverAssets(manifest, pages) ==
  [css |-> discoverCssFiles(manifest),
   icons |-> discoverIconFiles(manifest),
   html |-> discoverHtmlFiles(pages),
   webAccessibleResources |-> discoverWebAccessibleResources(manifest)]

SeqRange(seq) == { seq[i] : i \in 1..Len(seq) }

\* Mutant: every declared file is written, its source present or not.
Copied_All(files, existing) == SeqRange(files)

\* copyAsset / processCssFile: the file is written when its source exists,
\* and skipped with a warning when it does not.
Copied(files, existing) == { f \in SeqRange(files) : f \in existing }

\* The content of a source file, and what the PostCSS processor makes of it.
SourceContent(file) == << "source", file >>
ProcessedContent(file) == << "postcss", file >>

\* Mutant: without a result of the processor nothing is written.
CssResult_NoFallback(from, setup) ==
  IF setup.config /\ from \notin setup.throwsOn
    THEN ProcessedContent(from)
    ELSE << >>

\* processCssFile, the inner try: postcssrc rejects when the project has no
\* PostCSS configuration and processor.process rejects on a file it cannot
\* transform; either way result = { css: cssContent }.
CssResult(from, setup) ==
  IF setup.config /\ from \notin setup.throwsOn
    THEN ProcessedContent(from)
    ELSE SourceContent(from)

\* fs.writeFileSync(destPath, result.css) for every css file that exists
processCssFiles(files, existing, setup) ==
  [f \in Copied(files, existing) |-> CssResult(f, setup)]

\* What the assets plugin's generateBundle warns about.
Warnings(toCopy, existing) ==
  LET allHandledFiles == toCopy.css \o toCopy.icons \o toCopy.html
      rest == SelectSeq(toCopy.webAccessibleResources,
                        LAMBDA r : r \notin SeqRange(allHandledFiles))
  IN  { f \in SeqRange(toCopy.css) \cup SeqRange(toCopy.icons) \cup SeqRange(rest) :
          f \notin existing }

ManifestFileName ==
  <<"m", "a", "n", "i", "f", "e", "s", "t", ".", "j", "s", "o", "n">>

\* entryFileNames: '[name].js', one file per key of rollupOptions.input
EntryOutputs(ents) ==
  { n \o JsSuffix :
      n \in DOMAIN ents.background \cup DOMAIN ents.contentScript
            \cup DOMAIN ents.extensionPage }

\* The files generateBundle leaves in the output directory: the emitted
\* manifest, the bundler's entry files and what the assets plugin copied.
\* The html files come from a glob over the project, so they exist.
OutputFiles(ents, toCopy, existing) ==
  LET allHandledFiles == toCopy.css \o toCopy.icons \o toCopy.html
      rest == SelectSeq(toCopy.webAccessibleResources,
                        LAMBDA r : r \notin SeqRange(allHandledFiles))
  IN  { ManifestFileName }
      \cup EntryOutputs(ents)
      \cup Copied(toCopy.css, existing)
      \cup Copied(toCopy.icons, existing)
      \cup SeqRange(toCopy.html)
      \cup Copied(rest, existing)

(* ------------------------- the plugin pipeline ------------------------ *)

\* The files the bundler loads as modules: the entry files and one helper.
HelperFile == <<"u">> \o TsSuffix

EntryCategories == { "background", "contentScript", "extensionPage" }

EntryPaths(ents) ==
  UNION { { ents[k][n] : n \in DOMAIN ents[k] } : k \in EntryCategories }

\* The bundler resolves the input './x' against the root: the module id is
\* the absolute path of the file.
ModuleId(cwd, entryPath) == cwd \o Tail(entryPath)

ModuleIds(cwd, ents) ==
  { ModuleId(cwd, p) : p \in EntryPaths(ents) } \cup { Join(cwd, HelperFile) }

\* entries plugin, config hook (and configResolved): discoverEntries()
\* either throws, which ends the run, or its result is kept for the other
\* plugins.
Config ==
  /\ vitePc = "idle"
  /\ LET discovered == discoverEntries(root, manifestJson, htmlPages)
     IN  IF discovered.error # ""
           THEN /\ vitePc' = "failed"
                /\ viteError' = discovered.error
                /\ UNCHANGED browserExtEntries
           ELSE /\ vitePc' = "configured"
                /\ browserExtEntries' = << discovered.result >>
                /\ UNCHANGED viteError
  /\ UNCHANGED <<root, nodeEnv, sourceFiles, htmlPages, manifestContent,
                 assets, transformed, emitted, outDir, watchChanges>>
  /\ UNCHANGED <<manifestVars, assetVars, configVars, envVars, devVars, clientVars, pollVars>>

\* Mutant: the manifest is processed once and kept across rebuilds.
BuildStartManifest_Once(current, raw, isDev, packageFile, now) ==
  IF current # << >> THEN current
  ELSE << processManifest(raw, isDev, packageFile, now) >>

\* manifest plugin, buildStart: manifestContent = processManifest(...)
BuildStartManifest(current, raw, isDev, packageFile, now) ==
  << processManifest(raw, isDev, packageFile, now) >>

\* buildStart of the manifest plugin and of the assets plugin; the bundler
\* calls it at the start of every build, the first and each rebuild.  The
\* modules that have to be (re)loaded wait for their transform.
BuildStart ==
  /\ vitePc \in { "configured", "changed" }
  /\ IF ~manifestJson.exists
       THEN /\ vitePc' = "failed"
            /\ viteError' = ConfigurationError
            /\ UNCHANGED <<manifestContent, assets, transformed>>
       ELSE /\ vitePc' = "started"
            /\ manifestContent' =
                 BuildStartManifest(manifestContent, manifestJson.json,
                                    isDevelopment, packageJson, dateNow)
            /\ assets' = DiscoverAssets(manifestJson.json, htmlPages)
            /\ transformed' =
                 IF vitePc = "configured"
                   THEN [id \in ModuleIds(root, browserExtEntries[1]) |-> "pending"]
                   ELSE transformed
            /\ UNCHANGED viteError
  /\ UNCHANGED <<root, nodeEnv, sourceFiles, htmlPages, browserExtEntries,
                 emitted, outDir, watchChanges>>
  /\ UNCHANGED <<manifestVars, assetVars, configVars, envVars, devVars, clientVars, pollVars>>

\* hot-reload plugin, transform(code, id) for one module of the build
Transform(id) ==
  /\ vitePc = "started"
  /\ id \in DOMAIN transformed
  /\ transformed[id] = "pending"
  /\ transformed' =
       [transformed EXCEPT ![id] = transform(id, browserExtEntries[1], nodeEnv)]
  /\ UNCHANGED <<root, nodeEnv, sourceFiles, htmlPages, vitePc, viteError,
                 browserExtEntries, manifestContent, assets, emitted, outDir,
                 watchChanges>>
  /\ UNCHANGED <<manifestVars, assetVars, configVars, envVars, devVars, clientVars, pollVars>>

\* generateBundle of the manifest plugin (emitFile) and of the assets plugin
\* (copies), once every module is transformed; the bundler then writes its
\* entry files.  Bundling takes time: the clock has moved on afterwards.
GenerateBundle ==
  /\ vitePc = "started"
  /\ \A id \in DOMAIN transformed : transformed[id] # "pending"
  /\ IF manifestContent = << >>
       THEN /\ vitePc' = "failed"
            /\ viteError' = "Manifest content not loaded"
            /\ UNCHANGED <<emitted, outDir, warnings, cssWritten>>
       ELSE /\ vitePc' = "written"
            /\ emitted' = Append(emitted, manifestContent[1])
            /\ outDir' = OutputFiles(browserExtEntries[1], assets, sourceFiles)
            /\ warnings' = warnings \cup Warnings(assets, sourceFiles)
            /\ cssWritten' = processCssFiles(assets.css, sourceFiles, postcss)
            /\ UNCHANGED viteError
  /\ \E later \in { dateNow + 1, dateNow + 2 } : dateNow' = later
  /\ UNCHANGED <<root, nodeEnv, sourceFiles, htmlPages, browserExtEntries,
                 manifestContent, assets, transformed, watchChanges>>
  /\ UNCHANGED <<manifestJson, packageJson, isDevelopment, processed, postcss>>
  /\ UNCHANGED configVars
  /\ UNCHANGED <<envVars, devVars, clientVars, pollVars>>

\* watchChange(id) of the manifest plugin, in watch mode: a watched file
\* changed and a rebuild follows.  Only a change of manifest.json makes the
\* hook reprocess the manifest; a changed module is transformed again.
WatchChange(id) ==
  /\ vitePc = "written"
  /\ Len(emitted) < MaxBuilds
  /\ id \in DOMAIN transformed \cup { Join(root, ManifestFileName) }
  /\ vitePc' = "changed"
  /\ manifestContent' =
       IF id = Join(root, ManifestFileName)
         THEN << processManifest(manifestJson.json, isDevelopment,
                                 packageJson, dateNow) >>
         ELSE manifestContent
  /\ transformed' =
       IF id \in DOMAIN transformed
         THEN [transformed EXCEPT ![id] = "pending"] ELSE transformed
  /\ watchChanges' = Append(watchChanges, id)
  /\ UNCHANGED <<root, nodeEnv, sourceFiles, htmlPages, viteError,
                 browserExtEntries, assets, emitted, outDir>>
  /\ UNCHANGED <<manifestVars, assetVars, configVars, envVars, devVars, clientVars, pollVars>>

(* ---------------------------- defineConfig --------------------------- *)
\* An optional value is << >> when it is absent and << v >> when it is v.

OrDefault(option, default) == IF option = << >> THEN default ELSE option[1]

\* The names of the plugins stand for the plugins.
CorePlugins ==
  << "browser-ext:entries", "browser-ext:manifest", "browser-ext:assets" >>
HotReloadPlugin == "browser-ext:hot-reload"
TypeInferencePlugin == "browser-ext:type-inference"

RECURSIVE mergeConfig(_, _)
\* for (const key in override): plugins is skipped, two objects are merged
\* key by key, anything else is taken from override.
mergeConfig(base, override) ==
  [key \in DOMAIN base |->
     IF override[key] = << >> THEN base[key]
     ELSE IF key = "plugins" THEN base[key]
     \* isObject(baseValue) && isObject(overrideValue): the build options
     ELSE IF key = "build" /\ base[key] # << >>
       THEN << mergeConfig(base[key][1], override[key][1]) >>
     ELSE override[key]]

\* baseConfig of createViteConfig; it has no plugins key.
BaseConfig(cwd, env) ==
  [root |-> << cwd >>,
   build |-> << [outDir |-> << Join(cwd, <<"d", "i", "s", "t">>) >>,
                 sourcemap |-> << IF env = "development" THEN "inline" ELSE "false" >>,
                 minify |-> << env # "development" >>] >>,
   appType |-> << "custom" >>,
   plugins |-> << >>]

createViteConfig(userConfig, cwd, env) ==
  mergeConfig(BaseConfig(cwd, env), userConfig)

\* The plugins array defineConfig builds.
DefinedPlugins(config, env) ==
  LET typeInference == OrDefault(config.typeInference, TRUE)
      hotReload == OrDefault(config.hotReload, TRUE)
      userPlugins == OrDefault(config.plugins, << >>)
  IN  CorePlugins
      \o (IF env = "development" /\ hotReload THEN << HotReloadPlugin >> ELSE << >>)
      \o (IF typeInference THEN << TypeInferencePlugin >> ELSE << >>)
      \o userPlugins

EmptyUserConfig ==
  [root |-> << >>,
   build |-> << >>,
   appType |-> << >>,
   plugins |-> << >>]

defineConfig(config, cwd, env) ==
  LET userViteConfig == OrDefault(config.vite, EmptyUserConfig)
  IN  createViteConfig(
        [userViteConfig EXCEPT
           !.plugins = << DefinedPlugins(config, env)
                          \o OrDefault(userViteConfig.plugins, << >>) >>],
        cwd, env)

\* defineConfig(config) is called, by the CLI or by the user's config file.
DefineConfig ==
  /\ viteConfig = << >>
  /\ viteConfig' = << defineConfig(extConfig, root, nodeEnv) >>
  /\ UNCHANGED extConfig
  /\ UNCHANGED <<manifestVars, buildVars, assetVars>>
  /\ UNCHANGED <<envVars, devVars, clientVars, pollVars>>

NoExtConfig ==
  [typeInference |-> << >>, hotReload |-> << >>, vite |-> << >>, plugins |-> << >>]

\* The plugin pipeline before any hook ran.
InitBuildIdle ==
  /\ postcss = [config |-> FALSE, throwsOn |-> {}]
  /\ warnings = {}
  /\ cssWritten = << >>
  /\ extConfig = NoExtConfig
  /\ viteConfig = << >>
  /\ root = <<"/", "w">>
  /\ nodeEnv = "production"
  /\ sourceFiles = {}
  /\ htmlPages = << >>
  /\ vitePc = "idle"
  /\ viteError = ""
  /\ browserExtEntries = << >>
  /\ manifestContent = << >>
  /\ assets = NoAssets
  /\ transformed = << >>
  /\ emitted = << >>
  /\ outDir = {}
  /\ watchChanges = << >>

\* The vite package at rest, for the specifications of the webpack package.
InitViteIdle ==
  /\ manifestJson = NoManifestFile
  /\ packageJson = FullPackage
  /\ isDevelopment = FALSE
  /\ dateNow = 0
  /\ processed = << >>
  /\ InitBuildIdle

(* --------------------------- specification ---------------------------- *)

PollContexts == { "background", "page" }

InitPoll ==
  /\ manifestTimestamp = 0
  /\ nManifestChanges = 0
  /\ lastTimestamp = [k \in PollContexts |-> << >>]
  /\ observed = [k \in PollContexts |-> << >>]
  /\ nPolls = [k \in PollContexts |-> 0]
  /\ pollReloads = [k \in PollContexts |-> 0]

InitDev ==
  /\ pc = "start"
  /\ wss = "null"
  /\ wssPort = 0
  /\ webpackWatcher = "null"
  /\ entries = NoEntries
  /\ clients = [c \in Clients |-> "none"]
  /\ sent = [c \in Clients |-> << >>]
  /\ timers = << >>
  /\ shutdownInProgress = FALSE
  /\ forceExit = FALSE
  /\ wssResolved = FALSE
  /\ watcherResolved = FALSE
  /\ exitCode = "none"
  /\ nBuilds = 0
  /\ lastBuild = [outcome |-> "none", changed |-> {}, changedFiles |-> {},
                  afterFailure |-> FALSE]
  /\ nSignals = 0
  /\ shutdownOps = << >>
  /\ elapsed = 0
  /\ handled = [c \in Clients |-> 0]
  /\ clientReloads = [c \in Clients |-> 0]
  /\ InitBannerIdle

Init ==
  /\ project \in Projects
  /\ options \in [port : { DefaultPort }, reload : BOOLEAN]
  /\ busy = {}
  /\ InitDev
  /\ InitPoll
  /\ InitViteIdle

TimerFires ==
  \E i \in 1..Len(timers) :
    \/ ReloadContentTimeout(i)
    \/ WatcherTimeout(i)
    \/ ForceExitTimeout(i)

Next ==
  \/ Dev
  \/ Rebuild
  \/ \E c \in Clients : ClientConnect(c)
  \/ \E c \in Clients : ClientGone(c)
  \/ Tick
  \/ TimerFires
  \/ Shutdown
  \/ WssClosed
  \/ WatcherClosed

\* The dev process and its environment.
Spec == Init /\ [][Next]_vars

\* The dev process under the scheduling Node guarantees: time passes and a
\* due timer runs.
InitFair ==
  /\ project = [background |-> BackgroundNames, contentScript |-> {},
                extensionPage |-> {}]
  /\ options \in [port : { DefaultPort }, reload : BOOLEAN]
  /\ busy = {}
  /\ InitDev
  /\ InitPoll
  /\ InitViteIdle

FairSpec == InitFair /\ [][Next]_vars /\ WF_vars(Tick) /\ WF_vars(TimerFires)

\* The dev process together with the injected background clients.
NextClient ==
  \/ Next
  \/ \E c \in Clients : ClientOnMessage(c)

SpecClient == Init /\ [][NextClient]_vars

\* The dev process with reload enabled, in a project whose entries are
\* edited while it runs.
InitEdit ==
  /\ project \in Projects
  /\ options = [port |-> DefaultPort, reload |-> TRUE]
  /\ busy = {}
  /\ InitDev
  /\ InitPoll
  /\ InitViteIdle

SpecEdit == InitEdit /\ [][Next \/ EditProject]_vars

(* ------------------------- port selection ----------------------------- *)

PreferredPorts == { DefaultPort, 3000 }

\* The first n ports of the list are taken, and possibly one more after a gap.
BusyChoices(preferredPort) ==
  UNION { { preferredPort..(preferredPort + n - 1),
            (preferredPort..(preferredPort + n - 1)) \cup { preferredPort + n + 1 } } :
          n \in 0..(PortSpan + 1) }

InitPorts ==
  /\ project \in { pr \in Projects : Cardinality(AllNames(pr)) = 3 }
  /\ options \in [port : PreferredPorts, reload : BOOLEAN]
  /\ busy \in BusyChoices(options.port)
  /\ InitDev
  /\ InitPoll
  /\ InitViteIdle

\* dev() started with any preferred port on a host with some ports taken.
SpecPorts == InitPorts /\ [][Dev]_vars

(* ---------------------- timestamp-polling clients --------------------- *)

\* PollDecision without the lastTimestamp === null branch.
PollDecision_NoBaseline(last, currentTimestamp) ==
  IF currentTimestamp # 0 /\ (last = << >> \/ currentTimestamp # last[1])
    THEN "reload"
    ELSE "nothing"

\* What checkForUpdates does with the value it read, given lastTimestamp:
\* record it as the baseline, reload, or nothing.  0 stands for a manifest
\* without __dev_timestamp (undefined), which is falsy like 0.
PollDecision(last, currentTimestamp) ==
  IF last = << >> THEN "baseline"
  ELSE IF currentTimestamp # 0 /\ currentTimestamp # last[1] THEN "reload"
  ELSE "nothing"

\* The contexts a reload trigger of context k restarts: chrome.runtime.reload()
\* restarts the whole extension, window.location.reload() the page.
Restarted(k) == IF k = "background" THEN PollContexts ELSE { k }

\* checkForUpdates, run by setInterval in the background script (every 1 s)
\* and in an extension page (every 2 s).
CheckForUpdates(k) ==
  /\ nPolls[k] < MaxPolls
  /\ nPolls' = [nPolls EXCEPT ![k] = @ + 1]
  /\ LET currentTimestamp == manifestTimestamp
         decision == PollDecision(lastTimestamp[k], currentTimestamp)
     IN IF decision = "reload"
          THEN /\ pollReloads' = [pollReloads EXCEPT ![k] = @ + 1]
               /\ lastTimestamp' = [j \in PollContexts |->
                                      IF j \in Restarted(k) THEN << >>
                                      ELSE lastTimestamp[j]]
               /\ observed' = [j \in PollContexts |->
                                 IF j \in Restarted(k) THEN << >>
                                 ELSE observed[j]]
          ELSE /\ pollReloads' = pollReloads
               /\ lastTimestamp' =
                    [lastTimestamp EXCEPT ![k] =
                       IF decision = "baseline" THEN << currentTimestamp >> ELSE @]
               /\ observed' = [observed EXCEPT ![k] = Append(@, currentTimestamp)]
  /\ UNCHANGED <<manifestTimestamp, nManifestChanges>>
  /\ UNCHANGED <<viteVars, envVars, devVars, clientVars>>

\* The manifest the extension runs with gets another __dev_timestamp.
ManifestChange(v) ==
  /\ nManifestChanges < MaxManifestChanges
  /\ v # manifestTimestamp
  /\ manifestTimestamp' = v
  /\ nManifestChanges' = nManifestChanges + 1
  /\ UNCHANGED <<lastTimestamp, observed, nPolls, pollReloads>>
  /\ UNCHANGED <<viteVars, envVars, devVars, clientVars>>

InitPolling ==
  /\ project \in { pr \in Projects : Cardinality(AllNames(pr)) = 3 }
  /\ options = [port |-> DefaultPort, reload |-> TRUE]
  /\ busy = {}
  /\ InitDev
  /\ manifestTimestamp \in 0..MaxTimestamp
  /\ nManifestChanges = 0
  /\ lastTimestamp = [k \in PollContexts |-> << >>]
  /\ observed = [k \in PollContexts |-> << >>]
  /\ nPolls = [k \in PollContexts |-> 0]
  /\ pollReloads = [k \in PollContexts |-> 0]
  /\ InitViteIdle

NextPoll ==
  \/ \E k \in PollContexts : CheckForUpdates(k)
  \/ \E v \in 0..MaxTimestamp : ManifestChange(v)

SpecPoll == InitPolling /\ [][NextPoll]_vars

(* ---------------- manifest processing, specification ------------------ *)

\* The webpack package at rest, for the specifications of the vite package.
InitDevIdle ==
  /\ project = [background |-> BackgroundNames, contentScript |-> {},
                extensionPage |-> {}]
  /\ options = [port |-> DefaultPort, reload |-> TRUE]
  /\ busy = {}
  /\ InitDev
  /\ InitPoll

\* Any raw manifest and package metadata, in either mode; the clock reads
\* later than the timestamp a raw manifest may carry.
InitManifest ==
  /\ \E input \in ManifestInputs :
       /\ manifestJson = [exists |-> TRUE, json |-> input[1]]
       /\ packageJson = input[2]
  /\ isDevelopment \in BOOLEAN
  /\ dateNow = 2
  /\ processed = << >>
  /\ InitBuildIdle
  /\ InitDevIdle

\* processManifest applied to a raw manifest, and again to its own result.
SpecManifest == InitManifest /\ [][ProcessManifest]_vars

(* ------------------- plugin pipeline, specification ------------------- *)

BackgroundFile == <<"b">> \o TsSuffix
ContentFile == <<"c">> \o TsSuffix
PageScriptFile == <<"p">> \o TsxSuffix
PageFile == <<"p">> \o HtmlSuffix
CssFile == <<"c", ".", "c", "s", "s">>
OtherCssFile == <<"d", ".", "c", "s", "s">>
IconFile == <<"i", ".", "p", "n", "g">>
ResourceFile == <<"w", ".", "p", "n", "g">>

\* A project in the action-based shape, with web-accessible resources as
\* objects; one in the browser_action shape, with them as strings; and one
\* that declares a service worker only.
ProjectManifests ==
  { [EmptyManifest EXCEPT
       !.name = "m",
       !.background.service_worker = BackgroundFile,
       !.content_scripts = << [js |-> << ContentFile >>,
                               css |-> << CssFile, OtherCssFile >>] >>,
       !.icons = << IconFile >>,
       !.action = [default_popup |-> PageFile, default_icon |-> IconFile],
       !.web_accessible_resources = << ObjectResource(<< ResourceFile >>) >>],
    [EmptyManifest EXCEPT
       !.background.service_worker = BackgroundFile,
       !.content_scripts = << [js |-> << ContentFile >>, css |-> << >>] >>,
       !.browser_action = [default_popup |-> PageFile, default_icon |-> << >>],
       !.web_accessible_resources = << StringResource(ResourceFile) >>],
    [EmptyManifest EXCEPT !.background.service_worker = BackgroundFile] }

ManifestFiles ==
  { NoManifestFile } \cup { [exists |-> TRUE, json |-> m] : m \in ProjectManifests }

\* The assets a manifest may declare; each may be missing from the project.
AssetFiles == { CssFile, OtherCssFile, IconFile, ResourceFile }

Roots == { <<"/", "w">>, <<"/", "w", ".">> }

\* A project directory, the mode given on the command line, and the clock.
\* The source files of the entries exist (the bundler fails on a missing
\* input); declared assets may be missing.
InitVite ==
  /\ manifestJson \in ManifestFiles
  /\ packageJson = FullPackage
  /\ isDevelopment \in BOOLEAN
  /\ nodeEnv = IF isDevelopment THEN "development" ELSE "production"
  /\ dateNow = 2
  /\ processed = << >>
  /\ root \in Roots
  /\ htmlPages \in { << >>,
                     << [html |-> PageFile, scripts |-> << PageScriptFile >>] >> }
  /\ \E present \in SUBSET AssetFiles :
       sourceFiles = present \cup { BackgroundFile, ContentFile, PageScriptFile,
                                    HelperFile }
  /\ vitePc = "idle"
  /\ viteError = ""
  /\ browserExtEntries = << >>
  /\ manifestContent = << >>
  /\ assets = NoAssets
  /\ transformed = << >>
  /\ emitted = << >>
  /\ outDir = {}
  /\ watchChanges = << >>
  \* the project has a PostCSS configuration or none, and the processor
  \* may reject one of the css files
  /\ postcss \in [config : BOOLEAN,
                   throwsOn : { {}, { CssFile }, { OtherCssFile } }]
  /\ warnings = {}
  /\ cssWritten = << >>
  /\ extConfig = NoExtConfig
  /\ viteConfig = << >>
  /\ InitDevIdle

NextVite ==
  \/ Config
  \/ BuildStart
  \/ \E id \in DOMAIN transformed : Transform(id)
  \/ GenerateBundle
  \/ \E id \in DOMAIN transformed \cup { Join(root, ManifestFileName) } :
       WatchChange(id)

\* One run of the bundler with the plugins of the vite package: a build,
\* and the rebuilds of watch mode.
SpecVite == InitVite /\ [][NextVite]_vars

(* ------------------- entry discovery, specification ------------------- *)

\* A project whose manifest and html files name entry files in every shape
\* of path; discoverEntries has not run yet.
InitEntries ==
  /\ \/ manifestJson = NoManifestFile
     \/ \E sw \in { << >>, BackgroundFile,
                     \* a directory named a.ts that contains m.ts
                     <<"a">> \o TsSuffix \o <<"/", "m">> \o TsSuffix,
                     \* a path written with a backslash
                     <<"d", "\\", "b">> \o TsSuffix } :
        \E cs \in { << >>,
                     << [js |-> << ContentFile >>, css |-> << >>] >>,
                     \* a.ts and a.tsx have one name
                     << [js |-> << <<"a">> \o TsSuffix, <<"a">> \o TsxSuffix >>,
                         css |-> << >>] >>,
                     << [js |-> << <<"a">> \o TsxSuffix >>, css |-> << >>],
                        [js |-> << <<"a">> \o TsSuffix >>, css |-> << >>] >> } :
          manifestJson =
            [exists |-> TRUE,
             json |-> [EmptyManifest EXCEPT !.background.service_worker = sw,
                                            !.content_scripts = cs]]
  /\ \/ htmlPages = << >>
     \/ \E scripts \in
            { << PageScriptFile >>,
              << PageScriptFile, <<"p">> \o JsSuffix >>,
              \* a relative file whose name begins with http
              << <<"h", "t", "t", "p", "x">> \o TsSuffix >>,
              \* an absolute URL
              << <<"h", "t", "t", "p", ":", "/", "/", "c", "/", "a">> \o JsSuffix >>,
              << PageScriptFile,
                 <<"h", "t", "t", "p", ":", "/", "/", "c", "/", "a">> \o JsSuffix >> } :
          htmlPages = << [html |-> PageFile, scripts |-> scripts] >>
  /\ root \in Roots
  /\ packageJson = FullPackage
  /\ isDevelopment = FALSE
  /\ nodeEnv = "production"
  /\ dateNow = 0
  /\ processed = << >>
  /\ sourceFiles = {}
  /\ vitePc = "idle"
  /\ viteError = ""
  /\ browserExtEntries = << >>
  /\ manifestContent = << >>
  /\ assets = NoAssets
  /\ transformed = << >>
  /\ emitted = << >>
  /\ outDir = {}
  /\ watchChanges = << >>
  /\ postcss = [config |-> FALSE, throwsOn |-> {}]
  /\ warnings = {}
  /\ cssWritten = << >>
  /\ extConfig = NoExtConfig
  /\ viteConfig = << >>
  /\ InitDevIdle

\* discoverEntries applied to a project.
SpecEntries == InitEntries /\ [][Config]_vars

(* ------------------------ banner, specification ----------------------- *)

\* The extension was just loaded; the dev server runs or not.
InitBanner ==
  /\ server \in { "up", "down", "gone" }
  /\ banner = [state |-> "loading", timers |-> << >>]
  /\ sinceClose = 0
  /\ bannerReloads = 0
  /\ handled = [c \in Clients |-> 0]
  /\ clientReloads = [c \in Clients |-> 0]
  /\ project = [background |-> BackgroundNames, contentScript |-> {},
                extensionPage |-> {}]
  /\ options = [port |-> DefaultPort, reload |-> TRUE]
  /\ busy = {}
  /\ pc = "start"
  /\ wss = "null"
  /\ wssPort = 0
  /\ webpackWatcher = "null"
  /\ entries = NoEntries
  /\ clients = [c \in Clients |-> "none"]
  /\ sent = [c \in Clients |-> << >>]
  /\ timers = << >>
  /\ shutdownInProgress = FALSE
  /\ forceExit = FALSE
  /\ wssResolved = FALSE
  /\ watcherResolved = FALSE
  /\ exitCode = "none"
  /\ nBuilds = 0
  /\ lastBuild = [outcome |-> "none", changed |-> {}, changedFiles |-> {},
                  afterFailure |-> FALSE]
  /\ nSignals = 0
  /\ shutdownOps = << >>
  /\ elapsed = 0
  /\ InitPoll
  /\ InitViteIdle

\* The browser runs the loaded script, a connection to a server that is
\* not there fails, time passes and due timeouts run.
SpecBanner ==
  /\ InitBanner
  /\ [][ \/ BannerLoad
         \/ BannerOpen
         \/ BannerOnClose
         \/ BannerTick
         \/ BannerReload
         \/ ServerStop
         \/ ServerStart ]_vars
  /\ WF_vars(BannerLoad)
  /\ WF_vars(server # "up" /\ BannerOnClose)
  /\ WF_vars(BannerTick)
  /\ WF_vars(BannerReload)

(* --------------------- defineConfig, specification -------------------- *)

\* Any BrowserExtConfig, under any NODE_ENV.
InitConfig ==
  /\ extConfig \in
       [typeInference : { << >>, << TRUE >>, << FALSE >> },
        hotReload : { << >>, << TRUE >>, << FALSE >> },
        \* the vite option: absent, empty, with a build option, with plugins
        vite : { << >>,
                 << EmptyUserConfig >>,
                 << [EmptyUserConfig EXCEPT
                       !.build = << [outDir |-> << <<"o", "u", "t">> >>,
                                     sourcemap |-> << >>,
                                     minify |-> << >>] >>] >>,
                 << [EmptyUserConfig EXCEPT
                       !.plugins = << << "user:vite-plugin" >> >>] >> },
        plugins : { << >>, << << "user:plugin" >> >> }]
  /\ viteConfig = << >>
  /\ nodeEnv \in { "development", "production", "undefined" }
  /\ root = <<"/", "w">>
  /\ sourceFiles = {}
  /\ htmlPages = << >>
  /\ vitePc = "idle"
  /\ viteError = ""
  /\ browserExtEntries = << >>
  /\ manifestContent = << >>
  /\ assets = NoAssets
  /\ transformed = << >>
  /\ emitted = << >>
  /\ outDir = {}
  /\ watchChanges = << >>
  /\ postcss = [config |-> FALSE, throwsOn |-> {}]
  /\ warnings = {}
  /\ cssWritten = << >>
  /\ manifestJson = NoManifestFile
  /\ packageJson = FullPackage
  /\ isDevelopment = FALSE
  /\ dateNow = 0
  /\ processed = << >>
  /\ InitDevIdle

\* defineConfig applied to a BrowserExtConfig.
SpecConfig == InitConfig /\ [][DefineConfig]_vars

(* ============================ properties ============================== *)

Range(seq) == { seq[i] : i \in 1..Len(seq) }

Count(seq, x) == Cardinality({ i \in 1..Len(seq) : seq[i] = x })

\* The step is a run of the watch callback.
BuildStep == nBuilds' = nBuilds + 1

\* What the step put on client c's wire.
NewlySent(c) == SubSeq(sent'[c], Len(sent[c]) + 1, Len(sent'[c]))

\* The number of reload-content timers the step set for client c.
NewContentTimers(c) ==
  Cardinality({ i \in (Len(timers) + 1)..Len(timers') :
                  timers'[i] = [kind |-> "content", client |-> c,
                                left |-> ReloadContentDelay] })

\* An error-free rebuild after edits to files of the given entries only.
OnlyChanged(build, names) ==
  /\ build.outcome = "ok"
  /\ build.changed # {}
  /\ build.changed \subseteq FilesOf(names)

(* ------------------------------- C1 ----------------------------------- *)

C1_Step ==
  /\ (BuildStep /\ OnlyChanged(lastBuild', entries.contentScript)) =>
       \A c \in Clients :
         clients[c] = "open" =>
           /\ NewlySent(c) = << "reload-background" >>
           /\ NewContentTimers(c) = 1
  /\ \A c \in Clients :
       "reload-content" \in Range(NewlySent(c)) =>
         /\ NewlySent(c) = << "reload-content" >>
         /\ \E i \in 1..Len(timers) :
              /\ timers[i] = [kind |-> "content", client |-> c, left |-> 0]
              /\ timers' = RemoveAt(timers, i)
  /\ \A i \in 1..Len(timers) :
       ( /\ timers[i].kind = "content"
         /\ timers[i].left = 0
         /\ timers' = RemoveAt(timers, i)
         /\ clients[timers[i].client] = "open" ) =>
         NewlySent(timers[i].client) = << "reload-content" >>

C1_Order ==
  \A c \in Clients :
    \A k \in 1..Len(sent[c]) :
      /\ Count(SubSeq(sent[c], 1, k), "reload-content")
           <= Count(SubSeq(sent[c], 1, k), "reload-background")
      /\ sent[c][k] = "reload-content" => k > 1

C2_PageOnlyRebuild ==
  [][ (BuildStep /\ OnlyChanged(lastBuild', entries.extensionPage)) =>
        /\ \A c \in Clients :
             clients[c] = "open" => NewlySent(c) = << "reload-page" >>
        /\ timers' = timers ]_vars

(* ------------------------------- C3 ----------------------------------- *)

\* C3 as stated: on an error-free rebuild every category with an edited file
\* gets its instruction to every open client: reload-background for
\* background, the reload-content timer for content scripts, reload-page for
\* extension pages.
C3_EveryChangedCategory ==
  [][ (BuildStep /\ lastBuild'.outcome = "ok") =>
        \A c \in Clients :
          clients[c] = "open" =>
            /\ lastBuild'.changed \cap FilesOf(entries.background) # {} =>
                 "reload-background" \in Range(NewlySent(c))
            /\ lastBuild'.changed \cap FilesOf(entries.contentScript) # {} =>
                 NewContentTimers(c) = 1
            /\ lastBuild'.changed \cap FilesOf(entries.extensionPage) # {} =>
                 "reload-page" \in Range(NewlySent(c)) ]_vars

\* C3, amended: on an error-free rebuild the notifier sends every open client
\* exactly one instruction at once, chosen from the changed-file list it is
\* handed: reload-background, with one reload-content timer, when the list
\* holds a file of a background or content-script entry; reload-page, with no
\* timer, only when it holds a file of an extension-page entry and none of a
\* background or content-script entry.  A client that is not open is sent
\* nothing.
C3_OneInstruction ==
  [][ (BuildStep /\ lastBuild'.outcome = "ok" /\ options.reload) =>
        LET list == lastBuild'.changedFiles
            bg == list \cap FilesOf(entries.background) # {}
            cs == list \cap FilesOf(entries.contentScript) # {}
            pg == list \cap FilesOf(entries.extensionPage) # {}
        IN \A c \in Clients :
             IF clients[c] = "open"
               THEN /\ (bg \/ cs) =>
                         /\ NewlySent(c) = << "reload-background" >>
                         /\ NewContentTimers(c) = 1
                    /\ (~bg /\ ~cs /\ pg) =>
                         /\ NewlySent(c) = << "reload-page" >>
                         /\ NewContentTimers(c) = 0
                    /\ (~bg /\ ~cs /\ ~pg) =>
                         /\ NewlySent(c) = << >>
                         /\ NewContentTimers(c) = 0
               ELSE /\ NewlySent(c) = << >>
                    /\ NewContentTimers(c) = 0 ]_vars

\* After edits to a background file and an extension-page file, a client has
\* been sent reload-background and nothing else.
C3_Witness ==
  /\ nBuilds = 1
  /\ lastBuild.outcome = "ok"
  /\ lastBuild.changed \cap FilesOf(entries.background) # {}
  /\ lastBuild.changed \cap FilesOf(entries.extensionPage) # {}
  /\ \E c \in Clients : sent[c] = << "reload-background" >>

(* ------------------------------- C4 ----------------------------------- *)

\* C4: a termination signal that arrives while shutdown is in progress makes
\* the process exit in that very step.
C4_SecondSignalExits ==
  [][ (nSignals' = nSignals + 1 /\ shutdownInProgress) =>
        exitCode' # "none" ]_vars

(* ------------------------------- C5 ----------------------------------- *)

\* C5: the shutdown handler closes the client connections, then closes the
\* socket server, then closes the watcher; from then on no client is open,
\* the server accepts nothing and the watcher is stopped; and the process has
\* exit code 0 only when the socket server has reported closed and the
\* watcher has reported closed or its 2 s timeout has elapsed.
C5_CoordinatedShutdown ==
  /\ shutdownInProgress =>
       /\ shutdownOps = IF options.reload
                          THEN << "clients.close", "wss.close", "watcher.close" >>
                          ELSE << "watcher.close" >>
       /\ \A c \in Clients : clients[c] # "open"
       /\ options.reload => wss \in { "closing", "closed" }
       /\ webpackWatcher \in { "closing", "closed" }
  /\ exitCode = "0" =>
       /\ shutdownInProgress
       /\ options.reload => wss = "closed"
       /\ webpackWatcher = "closed" \/ elapsed >= WatcherTimeoutDelay

\* A clean exit after a client connection was closed by the handler and both
\* the server and the watcher reported closed.
C5_Witness ==
  /\ exitCode = "0"
  /\ wss = "closed"
  /\ webpackWatcher = "closed"
  /\ \E c \in Clients : clients[c] = "closed" /\ sent[c] # << >>

(* ------------------------------- C6 ----------------------------------- *)

\* C6 as stated, its case of a watcher whose close callback never fires: a
\* process that has exited without the watcher having reported closed was
\* ended by the force-exit timer, with exit code 1.
C6_StalledWatcherExitsOne ==
  (exitCode # "none" /\ webpackWatcher # "closed") => exitCode = "1"

\* C6, amended: after a termination signal the process always exits, at most
\* 3 s later.  It exits with code 1 only through the force-exit timer, 3 s
\* after the signal, and only when the socket server has not reported closed
\* by then; a watcher whose close callback does not fire is covered by its
\* own 2 s timeout and does not by itself lead to exit code 1.  When graceful
\* shutdown completes first, the force-exit timer is cancelled and the exit
\* code is 0.
C6_AlwaysExits ==
  /\ (shutdownInProgress ~> exitCode # "none")
  /\ [](( shutdownInProgress /\ exitCode = "none" ) =>
          /\ HasTimer("forceExit")
          /\ elapsed <= ForceExitDelay)
  /\ [](exitCode = "1" =>
          /\ elapsed = ForceExitDelay
          /\ ~wssResolved)
  /\ [](exitCode = "0" =>
          /\ wssResolved /\ watcherResolved
          /\ ~HasTimer("forceExit"))

\* The force-exit timer ended a shutdown in which the watcher's timeout had
\* run but the socket server never reported closed.
C6_Witness ==
  /\ exitCode = "1"
  /\ wss = "closing"
  /\ webpackWatcher = "closing"
  /\ watcherResolved

(* ------------------------------- C7 ----------------------------------- *)

ServerMessages == { "reload-background", "reload-content", "reload-page" }

\* C7: every message the server sends is one of the three instructions, and
\* the injected background client reloads the extension runtime when its
\* onmessage handler runs for a reload-background message.
C7_ClientReloadsOnInstruction ==
  /\ [](\A c \in Clients : Range(sent[c]) \subseteq ServerMessages)
  /\ [][ \A c \in Clients :
           ( /\ handled'[c] = handled[c] + 1
             /\ sent[c][handled[c] + 1] = "reload-background" ) =>
             clientReloads'[c] = clientReloads[c] + 1 ]_vars

(* ------------------------------- C8 ----------------------------------- *)

\* C8: a run of the watch callback for a rebuild that failed (fatal error, no
\* stats, or compilation errors) sends nothing, sets no timer and leaves the
\* socket server, the clients, the watcher and the process as they are; an
\* error-free rebuild that follows a failed one sends every open client an
\* instruction.
C8_FailedRebuild ==
  [][ BuildStep =>
        /\ lastBuild'.outcome \in Failures =>
             /\ sent' = sent
             /\ timers' = timers
             /\ wss' = wss
             /\ clients' = clients
             /\ webpackWatcher' = webpackWatcher
             /\ exitCode' = exitCode
        /\ ( /\ lastBuild'.outcome = "ok"
             /\ lastBuild'.afterFailure
             /\ options.reload ) =>
             \A c \in Clients :
               clients[c] = "open" => Len(NewlySent(c)) = 1 ]_vars

\* The watcher still runs after a failed rebuild, and the error-free rebuild
\* that followed it sent the client its first instruction.
C8_Witness ==
  /\ nBuilds = 2
  /\ lastBuild.outcome = "ok"
  /\ lastBuild.afterFailure
  /\ webpackWatcher = "watching"
  /\ \E c \in Clients : clients[c] = "open" /\ Len(sent[c]) = 1

(* ------------------------------- C9 ----------------------------------- *)

\* C9: the socket server listens on the lowest available port of
\* P..P+100 and never on a port outside that range.
C9_PortInRange ==
  wss = "listening" =>
    /\ wssPort \in PortList(options.port)
    /\ wssPort \notin busy
    /\ \A q \in PortList(options.port) \ busy : wssPort <= q

(* ------------------------------- C10 ---------------------------------- *)

\* The step is a run of checkForUpdates in context k.
PollStep(k) == nPolls'[k] = nPolls[k] + 1

\* C10: a context's first observation records the baseline and triggers no
\* reload; an observation of a timestamp that differs from the timestamp
\* observed before it triggers exactly one reload; an observation that
\* equals the one before it triggers nothing; and a reload is triggered by
\* nothing but an observation.
C10_ReloadOnSecondObservation ==
  [][ \A k \in PollContexts :
        LET v == manifestTimestamp
            n == Len(observed[k])
        IN /\ (PollStep(k) /\ n = 0) =>
                /\ pollReloads'[k] = pollReloads[k]
                /\ lastTimestamp'[k] = << v >>
           /\ (PollStep(k) /\ n > 0 /\ v > 0 /\ observed[k][n] > 0
                 /\ v # observed[k][n]) =>
                pollReloads'[k] = pollReloads[k] + 1
           /\ (PollStep(k) /\ n > 0 /\ v = observed[k][n]) =>
                pollReloads'[k] = pollReloads[k]
           /\ ~PollStep(k) => pollReloads'[k] = pollReloads[k] ]_vars

\* Both contexts have made two observations, the manifest's timestamp
\* changed once in between, and each has triggered one reload.
C10_Witness ==
  /\ nManifestChanges = 1
  /\ manifestTimestamp > 0
  /\ nPolls["page"] = 2 /\ pollReloads["page"] = 1
  /\ nPolls["background"] = 2 /\ pollReloads["background"] = 1

(* ------------------------------- C13 ---------------------------------- *)

\* The raw manifest and the result of processing it once.
Raw == manifestJson.json
Once == processed[1]

SourceScriptExtensions == { TsSuffix, TsxSuffix, JsxSuffix, JsSuffix }

\* path with its final source-script extension ext replaced by replacement
Rewritten(path, ext, replacement) ==
  SubSeq(path, 1, Len(path) - Len(ext)) \o replacement

\* C13: when the raw manifest's background.service_worker ends in .ts, .tsx,
\* .jsx or .js, the processed manifest's background.service_worker is the
\* same path with that final extension replaced by .js.
C13_ServiceWorkerRewritten ==
  Len(processed) >= 1 =>
    \A ext \in SourceScriptExtensions :
      EndsWith(Raw.background.service_worker, ext) =>
        Once.background.service_worker =
          Rewritten(Raw.background.service_worker, ext, JsSuffix)

\* src/a.tsx was processed to src/a.js.
C13_Witness ==
  /\ Len(processed) >= 1
  /\ Raw.background.service_worker = <<"s", "r", "c", "/", "a">> \o TsxSuffix
  /\ Once.background.service_worker = <<"s", "r", "c", "/", "a">> \o JsSuffix

(* ------------------------------- C14 ---------------------------------- *)

\* C14: in production mode, processing the result of processing a manifest
\* gives a manifest equal to the result of processing it once.
C14_Idempotent ==
  (~isDevelopment /\ Len(processed) >= 2) => processed[2] = processed[1]

\* A manifest whose paths and metadata were changed by the first pass has
\* been processed a second time in production mode.
C14_Witness ==
  /\ ~isDevelopment
  /\ Len(processed) >= 2
  /\ Once # Raw
  /\ \/ IsSourceScript(Raw.background.service_worker)
     \/ Raw.name # Once.name
     \/ \E key \in ActionKeys : Raw[key] # Once[key]

(* ------------------------------- C15 ---------------------------------- *)

\* C15 as stated: a default_popup under action, browser_action or
\* page_action that ends in a source-script extension is rewritten to the
\* same path with the .js extension.
C15_PopupRewrittenToJs ==
  Len(processed) >= 1 =>
    \A key \in ActionKeys : \A ext \in SourceScriptExtensions :
      EndsWith(Raw[key].default_popup, ext) =>
        Once[key].default_popup = Rewritten(Raw[key].default_popup, ext, JsSuffix)

\* C15, amended: a default_popup under action, browser_action or page_action
\* that ends in a source-script extension is rewritten to the same path with
\* the extension .html (the popup is a page, not a script); any other
\* default_popup is left as it is.
C15_PopupRewrittenToHtml ==
  Len(processed) >= 1 =>
    \A key \in ActionKeys :
      /\ \A ext \in SourceScriptExtensions :
           EndsWith(Raw[key].default_popup, ext) =>
             Once[key].default_popup =
               Rewritten(Raw[key].default_popup, ext, HtmlSuffix)
      /\ (\A ext \in SourceScriptExtensions :
            ~EndsWith(Raw[key].default_popup, ext)) =>
           Once[key].default_popup = Raw[key].default_popup

\* A popup declared as a.tsx under browser_action was processed.
C15_Witness ==
  /\ Len(processed) >= 1
  /\ Raw.browser_action.default_popup = <<"a">> \o TsxSuffix
  /\ Once.browser_action.default_popup = <<"a">> \o HtmlSuffix

(* ------------------------------- C16 ---------------------------------- *)

\* What C16 expects of one path of web_accessible_resources.
ExpectedResource(path) ==
  IF \E ext \in SourceScriptExtensions : EndsWith(path, ext)
    THEN LET ext == CHOOSE e \in SourceScriptExtensions : EndsWith(path, e)
         IN  Rewritten(path, ext, JsSuffix)
    ELSE path

\* C16: every web_accessible_resources entry that matches the script-file
\* pattern is rewritten to .js, whether it is a string of the array or a
\* path in an object's resources, and every other entry is left unchanged.
C16_ResourcesRewrittenInBothShapes ==
  Len(processed) >= 1 =>
    /\ Len(Once.web_accessible_resources) = Len(Raw.web_accessible_resources)
    /\ \A i \in 1..Len(Raw.web_accessible_resources) :
         LET before == Raw.web_accessible_resources[i]
             after == Once.web_accessible_resources[i]
         IN  /\ after.shape = before.shape
             /\ after.path = ExpectedResource(before.path)
             /\ Len(after.resources) = Len(before.resources)
             /\ \A j \in 1..Len(before.resources) :
                  after.resources[j] = ExpectedResource(before.resources[j])

(* ------------------------------- C17 ---------------------------------- *)

MetadataFields == { "name", "version", "description" }

\* C17 as stated: a field present in the manifest is never overwritten, a
\* field that processing changed equals the package value, and a field
\* absent in both the manifest and the package metadata stays absent.
C17_BackfillOnlyWhenAbsent ==
  Len(processed) >= 1 =>
    \A f \in MetadataFields :
      LET pkg == ReadPackageJson(packageJson)
      IN  /\ Raw[f] # undefined => Once[f] = Raw[f]
          /\ Once[f] # Raw[f] => Once[f] = pkg[f]
          /\ (Raw[f] = undefined /\ pkg[f] = undefined) => Once[f] = undefined

\* C17, amended: a field is backfilled when it is absent or empty in the
\* manifest and the package metadata has a non-empty value for it, and then
\* it equals the package value; a non-empty field of the manifest is never
\* overwritten, and in every other case the field stays as it was.
C17_BackfillWhenEmpty ==
  Len(processed) >= 1 =>
    \A f \in MetadataFields :
      LET pkg == ReadPackageJson(packageJson)
      IN  /\ Raw[f] \notin { undefined, "" } => Once[f] = Raw[f]
          /\ (Raw[f] \in { undefined, "" } /\ pkg[f] \notin { undefined, "" }) =>
               Once[f] = pkg[f]
          /\ (Raw[f] \in { undefined, "" } /\ pkg[f] \in { undefined, "" }) =>
               Once[f] = Raw[f]

\* One field was kept, one was backfilled over an empty value, and one was
\* absent on both sides.
C17_Witness ==
  /\ Len(processed) >= 1
  /\ Raw.name = "m" /\ packageJson.name = "p" /\ Once.name = "m"
  /\ Raw.version = "" /\ packageJson.version = "p" /\ Once.version = "p"
  /\ Raw.description = undefined /\ packageJson.exists
  /\ packageJson.description = undefined /\ Once.description = undefined

(* ------------------------------- C18 ---------------------------------- *)

\* C18: a manifest processed in development mode carries __dev_timestamp;
\* a manifest processed in production mode carries it only if the raw
\* manifest already had it, with the raw manifest's value.
C18_TimestampOnlyInDevelopment ==
  Len(processed) >= 1 =>
    /\ isDevelopment => Once.dev_timestamp # 0
    /\ ~isDevelopment => Once.dev_timestamp = Raw.dev_timestamp

\* A raw manifest without the field was processed in development mode and
\* got the clock's value.
C18_Witness ==
  /\ Len(processed) >= 1
  /\ isDevelopment
  /\ Raw.dev_timestamp = 0
  /\ Once.dev_timestamp > 0

(* ------------------------------- C11 ---------------------------------- *)

\* C11: in development mode the manifest emitted by a rebuild carries a
\* __dev_timestamp different from the one emitted by the build before it,
\* whichever file's change triggered the rebuild.
C11_TimestampPerRebuild ==
  isDevelopment =>
    \A i \in 2..Len(emitted) :
      /\ emitted[i].dev_timestamp # 0
      /\ emitted[i].dev_timestamp # emitted[i - 1].dev_timestamp

\* A rebuild in development mode, triggered by a file other than
\* manifest.json (the manifest plugin's watchChange did not reprocess), has
\* emitted its manifest.
C11_Witness ==
  /\ isDevelopment
  /\ vitePc = "written"
  /\ Len(emitted) = 2
  /\ emitted[2].dev_timestamp > emitted[1].dev_timestamp
  /\ watchChanges = << Join(root, HelperFile) >>

(* ------------------------------- C12 ---------------------------------- *)

\* id is the absolute path of the source file of an entry of the map
IsEntryModule(id, map) == \E n \in DOMAIN map : id = root \o Tail(map[n])

\* What C12 expects transform to append to a module.
ExpectedInjection(id, ents) ==
  IF nodeEnv # "development" THEN "null"
  ELSE IF IsEntryModule(id, ents.background) THEN "injectBackgroundReload"
  ELSE IF IsEntryModule(id, ents.contentScript) THEN "injectContentReload"
  ELSE IF IsEntryModule(id, ents.extensionPage) THEN "injectExtensionPageReload"
  ELSE "null"

\* C12: in development mode transform appends the background polling code
\* to the modules of background entries, the content-script code to those
\* of content-script entries and the extension-page code to those of
\* extension-page entries; every other module, and every module outside
\* development mode, is left unchanged.
C12_InjectsIntoEntryModules ==
  \A id \in DOMAIN transformed :
    transformed[id] # "pending" =>
      transformed[id] = ExpectedInjection(id, browserExtEntries[1])

(* ------------------------------- C19 ---------------------------------- *)

\* Every file path a manifest refers to.
ManifestReferences(manifest) ==
  { p \in
      { manifest.background.service_worker }
      \cup SeqRange(Flatten([i \in 1..Len(manifest.content_scripts) |->
                               manifest.content_scripts[i].js]))
      \cup SeqRange(discoverCssFiles(manifest))
      \cup SeqRange(discoverIconFiles(manifest))
      \cup { manifest[key].default_popup : key \in ActionKeys }
      \cup SeqRange(discoverWebAccessibleResources(manifest)) :
    p # << >> }

\* C19: after a build, every file the emitted manifest refers to exists in
\* the output directory.
C19_ReferencesExist ==
  vitePc = "written" =>
    ManifestReferences(emitted[Len(emitted)]) \subseteq outDir

(* ------------------------------- C20 ---------------------------------- *)

\* C20: without a manifest.json in the project root the run ends in entry
\* discovery with the configuration error: no entry result is stored, no
\* manifest is processed or emitted, no module is transformed and nothing
\* is written.
C20_NoManifestIsConfigurationError ==
  ~manifestJson.exists =>
    /\ vitePc \in { "idle", "failed" }
    /\ vitePc = "failed" => viteError = ConfigurationError
    /\ browserExtEntries = << >>
    /\ manifestContent = << >>
    /\ assets = NoAssets
    /\ DOMAIN transformed = {}
    /\ emitted = << >>
    /\ outDir = {}

\* Entry discovery ran in a project without manifest.json.
C20_Witness ==
  /\ ~manifestJson.exists
  /\ vitePc = "failed"
  /\ viteError = ConfigurationError
  /\ htmlPages # << >>

(* ------------------------------- C27 ---------------------------------- *)

\* The instruction the notifier would choose with the entries the project
\* has at the time of the rebuild.
InstructionFor(changedFiles, ents) ==
  Instruction(backgroundChanged(changedFiles, ents),
              contentScriptChanged(changedFiles, ents),
              extensionPageChanged(changedFiles, ents))

\* C27: the instruction an error-free rebuild sends to every open client is
\* the one that follows from the project's entries at the time of that
\* rebuild, also after the entries were edited during the watch session.
C27_EntriesPerRebuild ==
  [][ (BuildStep /\ lastBuild'.outcome = "ok") =>
        \A c \in Clients :
          clients[c] = "open" =>
            LET now == InstructionFor(lastBuild'.changedFiles, project)
            IN  NewlySent(c) = IF now = "nothing" THEN << >> ELSE << now >> ]_vars

(* ------------------------------- C28 ---------------------------------- *)

C29_NoInterleaving ==
  [][ (BuildStep /\ lastBuild'.outcome = "ok") =>
        \A c \in Clients :
          (\E i \in 1..Len(timers) :
             /\ timers[i].kind = "content"
             /\ timers[i].client = c
             /\ timers[i].left > 0) => NewlySent(c) = << >> ]_vars

(* --------------------------- C21, C22, C23 ---------------------------- *)

Discovered == vitePc = "configured"

AllScripts == Flatten([i \in 1..Len(htmlPages) |-> htmlPages[i].scripts])

IsAbsoluteUrl(src) ==
  \/ StartsWith(src, <<"h", "t", "t", "p", ":", "/", "/">>)
  \/ StartsWith(src, <<"h", "t", "t", "p", "s", ":", "/", "/">>)

RelativeScripts == SelectSeq(AllScripts, LAMBDA src : ~IsAbsoluteUrl(src))

\* The name an entry file is to have: its path relative to the root, with
\* forward slashes, without the extension of its last segment.
ExpectedName(relativePath) ==
  LET n == NormalizeSeparators(relativePath)
      dot == LastIndexOf(n, ".")
      slash == LastIndexOf(n, "/")
  IN  IF dot > slash + 1 THEN SubSeq(n, 1, dot - 1) ELSE n

ExpectedPath(relativePath) == <<".", "/">> \o NormalizeSeparators(relativePath)

\* C21: when the N script sources that are not absolute URLs have pairwise
\* distinct names, the extension-page entries are exactly these N scripts,
\* a file whose name begins with "http" included, and no absolute URL is an
\* entry.
C21_OneEntryPerRelativeScript ==
  Discovered =>
    LET page == browserExtEntries[1].extensionPage
        rel == RelativeScripts
    IN  (\A i, j \in 1..Len(rel) :
           i # j => ExpectedName(rel[i]) # ExpectedName(rel[j]))
        => /\ Cardinality(DOMAIN page) = Len(rel)
           /\ \A i \in 1..Len(rel) :
                /\ ExpectedName(rel[i]) \in DOMAIN page
                /\ page[ExpectedName(rel[i])] = ExpectedPath(rel[i])
           /\ \A i \in 1..Len(AllScripts) :
                IsAbsoluteUrl(AllScripts[i]) =>
                  \A n \in DOMAIN page : page[n] # ExpectedPath(AllScripts[i])

\* The files of a category in the order discovery meets them.
DiscoveredFiles(category) ==
  IF category = "background"
    THEN NonEmpty(<< manifestJson.json.background.service_worker >>)
  ELSE IF category = "contentScript"
    THEN Flatten([i \in 1..Len(manifestJson.json.content_scripts) |->
                    manifestJson.json.content_scripts[i].js])
  ELSE LET srcs == PageScripts(htmlPages)
       IN  [i \in 1..Len(srcs) |-> Join(root, srcs[i])]

\* C22: in every category the entry map has one entry for each name the
\* discovered files have, and the path under a name is that of the last
\* discovered file with that name.
C22_LastDiscoveredWins ==
  Discovered =>
    \A category \in EntryCategories :
      LET files == DiscoveredFiles(category)
          map == browserExtEntries[1][category]
          Last(n) == CHOOSE i \in 1..Len(files) :
                       /\ getEntry(root, files[i]).name = n
                       /\ \A j \in (i + 1)..Len(files) :
                            getEntry(root, files[j]).name # n
      IN  /\ DOMAIN map = { getEntry(root, files[i]).name : i \in 1..Len(files) }
          /\ \A n \in DOMAIN map : map[n] = getEntry(root, files[Last(n)]).path

\* Two content scripts with one name and different paths were discovered.
C22_Witness ==
  /\ Discovered
  /\ LET files == DiscoveredFiles("contentScript")
         map == browserExtEntries[1].contentScript
     IN  /\ Len(files) = 2
         /\ files[1] # files[2]
         /\ getEntry(root, files[1]).name = getEntry(root, files[2]).name
         /\ Cardinality(DOMAIN map) = 1
         /\ \A n \in DOMAIN map : map[n] = <<".", "/">> \o files[2]

\* C23: the name of the background entry is the service worker's path
\* relative to the root with forward slashes and without its final
\* extension, also when a directory of the path contains the extension's
\* text; its path is "./" and the normalized relative path.
C23_NameStripsFinalExtension ==
  (Discovered /\ manifestJson.json.background.service_worker # << >>) =>
    LET file == manifestJson.json.background.service_worker
        map == browserExtEntries[1].background
    IN  /\ DOMAIN map = { ExpectedName(file) }
        /\ \A n \in DOMAIN map : map[n] = ExpectedPath(file)

(* ----------------------------- C24, C25 ------------------------------- *)

\* The assets the manifest declares: css, icons, web-accessible resources.
DeclaredAssets ==
  SeqRange(assets.css) \cup SeqRange(assets.icons)
  \cup SeqRange(assets.webAccessibleResources)

\* C24: when a build has written its output, every declared asset whose
\* source is missing was warned about and is not in the output directory,
\* every declared asset whose source exists is in the output directory, and
\* a build fails only for the manifest, never for an asset.
C24_MissingAssetSkipped ==
  /\ vitePc = "written" =>
       \A f \in DeclaredAssets :
         IF f \in sourceFiles
           THEN f \in outDir
           ELSE f \notin outDir /\ f \in warnings /\ f \notin DOMAIN cssWritten
  /\ vitePc = "failed" =>
       viteError \in { ConfigurationError, "Manifest content not loaded" }

\* A build wrote its output with the icon missing and the other assets
\* present.
C24_Witness ==
  /\ vitePc = "written"
  /\ IconFile \in DeclaredAssets
  /\ IconFile \notin sourceFiles
  /\ warnings = { IconFile }
  /\ { CssFile, OtherCssFile, ResourceFile } \subseteq outDir

TransformFails(file) == ~postcss.config \/ file \in postcss.throwsOn

\* C25: when a build has written its output, every css file whose source
\* exists is in the output directory, with the source's content when the
\* transform failed for it and with the processor's result otherwise.
C25_CssFallsBackToCopy ==
  vitePc = "written" =>
    \A f \in SeqRange(assets.css) \cap sourceFiles :
      /\ f \in outDir
      /\ f \in DOMAIN cssWritten
      /\ cssWritten[f] = IF TransformFails(f) THEN SourceContent(f)
                                              ELSE ProcessedContent(f)

\* The processor rejected one css file and transformed the other.
C25_Witness ==
  /\ vitePc = "written"
  /\ postcss = [config |-> TRUE, throwsOn |-> { CssFile }]
  /\ { CssFile, OtherCssFile } \subseteq DOMAIN cssWritten
  /\ cssWritten[CssFile] = SourceContent(CssFile)
  /\ cssWritten[OtherCssFile] = ProcessedContent(OtherCssFile)

(* ------------------------------- C26 ---------------------------------- *)

Position(seq, x) == CHOOSE i \in 1..Len(seq) : seq[i] = x

\* C26: the configuration defineConfig returns has a plugins list that
\* begins with the entries, manifest and assets plugins, has every user
\* plugin after them, and has the hot-reload plugin exactly when NODE_ENV
\* is development and hotReload is not false.
C26_PluginsCarried ==
  viteConfig # << >> =>
    LET carried == OrDefault(viteConfig[1].plugins, << >>)
        userPlugins == OrDefault(extConfig.plugins, << >>)
    IN  /\ Len(carried) >= 3
        /\ SubSeq(carried, 1, 3) = CorePlugins
        /\ \A i \in 1..Len(userPlugins) :
             /\ userPlugins[i] \in Range(carried)
             /\ Position(carried, userPlugins[i]) > 3
        /\ HotReloadPlugin \in Range(carried)
             <=> (nodeEnv = "development" /\ extConfig.hotReload # << FALSE >>)

(* ------------------------------- C30 ---------------------------------- *)

ReloadCounts == 0..(ReloadCounterSize - 1)

\* C30: every run of ws.onclose leaves exactly one timeout pending;
\* chrome.runtime.reload() is called only from that timeout, 1000 ms after
\* the close; every close is followed by a reload; and once the dev server
\* is gone for good, whatever the number of reloads so far, another reload
\* follows.
C30_ReloadAfterEveryClose ==
  /\ [][ (banner'.state = "closed" /\ banner.state # "closed") =>
            banner'.timers = << BannerReloadDelay >> ]_vars
  /\ [][ bannerReloads' # bannerReloads =>
            /\ banner.state = "closed"
            /\ Len(banner.timers) = 1
            /\ sinceClose = BannerReloadDelay ]_vars
  /\ \A k \in ReloadCounts :
       (banner.state = "closed" /\ bannerReloads = k) ~> (bannerReloads # k)
  /\ \A k \in ReloadCounts :
       (server = "gone" /\ bannerReloads = k) ~> (bannerReloads # k)

\* The server is gone and the client has reloaded, failed to connect and
\* is waiting to reload again.
C30_Witness ==
  /\ server = "gone"
  /\ bannerReloads >= 2
  /\ banner.state = "closed"
  /\ banner.timers = << 1 >>

====
